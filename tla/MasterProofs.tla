----------------------------- MODULE MasterProofs -----------------------------
(***************************************************************************)
(* What the masters of a channel keep true, for any tasks, any number of   *)
(* masters and any modulus of the sequence numbers: the tasks are          *)
(* accounted for, the next one is looked for and is the one to run, its    *)
(* callback is called once, a late response is ignored and the lock is     *)
(* passed on.                                                              *)
(***************************************************************************)
EXTENDS Master, FiniteSetTheorems, TLAPS

----------------------------------------------------------------------------
(* Sequences that list a set, each member once.                            *)

Lists(s, X) == s \in Seq(X) /\ Range(s) = X /\ IsInjective(s)

\* The empty sequence lists the empty set, and no other does.
LEMMA ListsNone ==
    /\ Lists(<<>>, {})
    /\ \A s, X : Lists(s, X) => (s = <<>> <=> X = {})
<1>1. <<>> \in Seq({}) /\ DOMAIN <<>> = {}
  OBVIOUS
<1>2. Lists(<<>>, {})
  BY <1>1 DEF Lists, Range, IsInjective
<1>3. ASSUME NEW s, NEW X, Lists(s, X) PROVE s = <<>> <=> X = {}
  <2>1. s \in Seq(X) /\ X = {s[k] : k \in DOMAIN s}
    BY <1>3 DEF Lists, Range
  <2>2. ASSUME s # <<>> PROVE s[1] \in X
    BY <2>1, <2>2
  <2> QED BY <2>1, <2>2
<1> QED BY <1>2, <1>3

\* A member is at some position.
LEMMA ListsContains ==
    ASSUME NEW s, NEW X, Lists(s, X), NEW x
    PROVE  Contains(s, x) <=> x \in X
BY DEF Lists, Range, Contains

\* A new member at the end.
LEMMA ListsAppend ==
    ASSUME NEW s, NEW X, Lists(s, X), NEW x, x \notin X
    PROVE  Lists(Append(s, x), X \cup {x})
<1> DEFINE a == Append(s, x)
<1>1. s \in Seq(X) /\ Len(s) \in Nat /\ DOMAIN s = 1 .. Len(s)
  BY DEF Lists
<1>2. s \in Seq(X \cup {x})
  BY <1>1
<1>3. /\ a \in Seq(X \cup {x}) /\ DOMAIN a = 1 .. Len(s) + 1
      /\ a[Len(s) + 1] = x /\ \A k \in 1 .. Len(s) : a[k] = s[k]
  BY <1>1, <1>2
<1> HIDE DEF a
<1>4. \A k \in 1 .. Len(s) : s[k] \in X
  BY <1>1
<1>5. \A k, m \in 1 .. Len(s) : s[k] = s[m] => k = m
  BY <1>1 DEF Lists, IsInjective
<1>6. \A k, m \in DOMAIN a : a[k] = a[m] => k = m
  BY <1>1, <1>3, <1>4, <1>5
<1>7. Range(a) = X \cup {x}
  <2>1. X = {s[k] : k \in 1 .. Len(s)}
    BY <1>1 DEF Lists, Range
  <2>2. Range(a) = {a[k] : k \in 1 .. Len(s) + 1}
    BY <1>3 DEF Range
  <2>3. ASSUME NEW y \in X PROVE y \in Range(a)
    <3>1. PICK k \in 1 .. Len(s) : y = s[k]
      BY <2>1
    <3> QED BY <1>1, <1>3, <2>2, <3>1
  <2>4. x \in Range(a)
    BY <1>1, <1>3, <2>2
  <2>5. ASSUME NEW y \in Range(a) PROVE y \in X \cup {x}
    BY <1>3, <2>2
  <2> QED BY <2>3, <2>4, <2>5
<1> QED BY <1>3, <1>6, <1>7 DEF Lists, IsInjective, a

\* The first member is taken.
LEMMA ListsTail ==
    ASSUME NEW s, NEW X, Lists(s, X), s # <<>>
    PROVE  Head(s) \in X /\ Lists(Tail(s), X \ {Head(s)})
<1> DEFINE r == Tail(s)
           n == Len(s)
<1>1. s \in Seq(X) /\ n \in Nat /\ n > 0 /\ DOMAIN s = 1 .. n /\ Head(s) = s[1] /\ s[1] \in X
  BY DEF Lists
<1>2. /\ r \in Seq(X) /\ DOMAIN r = 1 .. n - 1 /\ Len(r) = n - 1
      /\ \A k \in 1 .. n - 1 : r[k] = s[k + 1] /\ k + 1 \in 1 .. n
  BY <1>1
<1> HIDE DEF r, n
<1>3. \A k, m \in 1 .. n : s[k] = s[m] => k = m
  BY <1>1 DEF Lists, IsInjective
<1>4. \A k, m \in DOMAIN r : r[k] = r[m] => k = m
  <2>1. \A k, m \in 1 .. n - 1 : k + 1 = m + 1 => k = m
    BY <1>1
  <2> QED BY <1>2, <1>3, <2>1
<1>5. X = {s[k] : k \in 1 .. n}
  BY <1>1 DEF Lists, Range
<1>6. Range(r) = X \ {s[1]}
  <2>1. Range(r) = {r[k] : k \in 1 .. n - 1}
    BY <1>2 DEF Range
  <2>2. ASSUME NEW y \in X, y # s[1] PROVE y \in Range(r)
    <3>1. PICK k \in 1 .. n : y = s[k]
      BY <1>5
    <3>2. k - 1 \in 1 .. n - 1 /\ (k - 1) + 1 = k
      BY <1>1, <2>2, <3>1
    <3>3. r[k - 1] = y
      BY <1>2, <3>1, <3>2
    <3> QED BY <2>1, <3>2, <3>3
  <2>3. ASSUME NEW y \in Range(r) PROVE y \in X /\ y # s[1]
    <3>1. PICK k \in 1 .. n - 1 : y = r[k]
      BY <2>1
    <3>2. k + 1 \in 1 .. n /\ y = s[k + 1] /\ k + 1 # 1 /\ 1 \in 1 .. n
      BY <1>1, <1>2, <3>1
    <3> QED BY <1>3, <1>5, <3>2
  <2> QED BY <2>2, <2>3
<1>7. r \in Seq(X \ {s[1]})
  <2>1. \A k \in 1 .. Len(r) : r[k] \in X \ {s[1]}
    BY <1>2, <1>6 DEF Range
  <2> QED BY <1>2, <2>1
<1> QED BY <1>1, <1>4, <1>6, <1>7 DEF Lists, IsInjective, r

\* The length of a part of a sequence.
LEMMA PartLength ==
    ASSUME NEW X, NEW s \in Seq(X), NEW m \in Int, NEW n \in Int,
           1 <= m, n <= Len(s), m <= n + 1
    PROVE  Len(SubSeq(s, m, n)) = n - m + 1
OBVIOUS

\* The length of a concatenation.
LEMMA JoinLength ==
    ASSUME NEW X, NEW u \in Seq(X), NEW v \in Seq(X)
    PROVE  Len(u \o v) = Len(u) + Len(v)
OBVIOUS

\* A member is taken from where it is.
LEMMA ListsRemove ==
    ASSUME NEW s, NEW X, Lists(s, X), NEW x \in X
    PROVE  Lists(RemoveFirst(s, x), X \ {x})
<1> DEFINE r == RemoveFirst(s, x)
           n == Len(s)
<1>1. s \in Seq(X) /\ n \in Nat /\ DOMAIN s = 1 .. n
  BY DEF Lists
<1>2. X = {s[k] : k \in 1 .. n}
  BY <1>1 DEF Lists, Range
<1>3. \A k, m \in 1 .. n : s[k] = s[m] => k = m
  BY <1>1 DEF Lists, IsInjective
<1>4. PICK p \in 1 .. n : s[p] = x
  BY <1>2
<1>5. r = SubSeq(s, 1, p - 1) \o SubSeq(s, p + 1, n)
  <2> DEFINE I == {k \in 1 .. Len(s) : s[k] = x}
  <2>1. I = {p}
    BY <1>3, <1>4
  <2>2. Min({p}) = p
    BY <1>1, <1>4 DEF Min
  <2>3. SelectInSeq(s, LAMBDA v : v = x) = p
    BY <2>1, <2>2 DEF SelectInSeq
  <2> QED BY <1>4, <2>3 DEF RemoveFirst, RemoveAt
<1>6. /\ r \in Seq(X) /\ Len(r) = n - 1 /\ DOMAIN r = 1 .. n - 1
      /\ \A k \in 1 .. n - 1 : r[k] = IF k < p THEN s[k] ELSE s[k + 1]
  <2> DEFINE u == SubSeq(s, 1, p - 1)
             v == SubSeq(s, p + 1, n)
  <2>1. u \in Seq(X) /\ Len(u) = p - 1
    BY <1>1, <1>4
  <2>2. \A k \in 1 .. p - 1 : u[k] = s[k]
    BY <1>1, <1>4
  <2>3. v \in Seq(X) /\ Len(v) = n - p
    <3>1. v \in Seq(X)
      BY <1>1, <1>4
    <3>2. p + 1 \in Int /\ n \in Int /\ 1 <= p + 1 /\ n <= Len(s) /\ p + 1 <= n + 1
      BY <1>1, <1>4
    <3>3. Len(v) = n - (p + 1) + 1
      BY <1>1, <3>2, PartLength
    <3>4. n - (p + 1) + 1 = n - p
      BY <1>1, <1>4
    <3> QED BY <3>1, <3>3, <3>4
  <2>4. \A k \in 1 .. n - p : v[k] = s[p + k]
    <3>1. ASSUME NEW k \in 1 .. n - p PROVE v[k] = s[(p + 1) + k - 1] /\ (p + 1) + k - 1 = p + k
      BY <1>1, <1>4
    <3> QED BY <3>1
  <2>5. r = u \o v
    BY <1>5
  <2> HIDE DEF u, v, r
  <2>6. r \in Seq(X) /\ Len(r) = (p - 1) + (n - p) /\ DOMAIN r = 1 .. Len(r)
    <3>1. r \in Seq(X)
      BY <2>1, <2>3, <2>5
    <3>2. Len(r) = (p - 1) + (n - p)
      BY <2>1, <2>3, <2>5, JoinLength
    <3> QED BY <3>1, <3>2
  <2>7. \A k \in 1 .. Len(r) : r[k] = IF k <= p - 1 THEN u[k] ELSE v[k - (p - 1)]
    BY <2>1, <2>3, <2>5, <2>6
  <2>8. Len(r) = n - 1
    BY <1>1, <1>4, <2>6
  <2>9. ASSUME NEW k \in 1 .. n - 1 PROVE r[k] = IF k < p THEN s[k] ELSE s[k + 1]
    <3>1. CASE k < p
      BY <1>1, <1>4, <2>2, <2>7, <2>8, <3>1
    <3>2. CASE ~(k < p)
      <4>1. k - (p - 1) \in 1 .. n - p /\ p + (k - (p - 1)) = k + 1 /\ ~(k <= p - 1)
        BY <1>1, <1>4, <3>2
      <4> QED BY <2>4, <2>7, <2>8, <3>2, <4>1
    <3> QED BY <3>1, <3>2
  <2> QED BY <2>6, <2>8, <2>9
<1> HIDE DEF r, n
<1>7. \A k, m \in DOMAIN r : r[k] = r[m] => k = m
  <2> SUFFICES ASSUME NEW k \in 1 .. n - 1, NEW m \in 1 .. n - 1, r[k] = r[m] PROVE k = m
    BY <1>6
  <2>1. k \in 1 .. n /\ m \in 1 .. n /\ k + 1 \in 1 .. n /\ m + 1 \in 1 .. n
    BY <1>1
  <2>2. (IF k < p THEN k ELSE k + 1) = (IF m < p THEN m ELSE m + 1)
    BY <1>3, <1>6, <2>1
  <2> QED BY <1>1, <1>4, <2>2
<1>8. Range(r) = X \ {x}
  <2>1. Range(r) = {r[k] : k \in 1 .. n - 1}
    BY <1>6 DEF Range
  <2>2. ASSUME NEW y \in X, y # x PROVE y \in Range(r)
    <3>1. PICK k \in 1 .. n : y = s[k] /\ k # p
      BY <1>2, <1>4, <2>2
    <3>2. CASE k < p
      BY <1>1, <1>4, <1>6, <2>1, <3>1, <3>2
    <3>3. CASE k > p
      <4>1. k - 1 \in 1 .. n - 1 /\ ~(k - 1 < p) /\ (k - 1) + 1 = k
        BY <1>1, <1>4, <3>1, <3>3
      <4>2. r[k - 1] = y
        BY <1>6, <3>1, <4>1
      <4> QED BY <2>1, <4>1, <4>2
    <3> QED BY <1>4, <3>1, <3>2, <3>3
  <2>3. ASSUME NEW y \in Range(r) PROVE y \in X /\ y # x
    <3>1. PICK k \in 1 .. n - 1 : y = r[k]
      BY <2>1
    <3>2. PICK m \in 1 .. n : m # p /\ y = s[m]
      BY <1>1, <1>4, <1>6, <3>1
    <3> QED BY <1>2, <1>3, <1>4, <3>2
  <2> QED BY <2>2, <2>3
<1>9. r \in Seq(X \ {x})
  <2>1. \A k \in 1 .. Len(r) : r[k] \in X \ {x}
    BY <1>6, <1>8 DEF Range
  <2> QED BY <1>6, <2>1
<1> QED BY <1>7, <1>8, <1>9 DEF Lists, IsInjective, r

----------------------------------------------------------------------------
(* Tasks.                                                                   *)

Classes == {ClearRestartTask, DisableUnsolicitedTask, AssignClassTask, StartupIntegrityPoll,
            SerialTimeSyncTask, EnableUnsolicitedTask, EventScanTask, UserPollTask, CommandTask,
            SimpleRequestTask}

\* A single-shot task is a scan, a request or a command, and the times are
\* natural numbers.
LEMMA TaskClasses ==
    /\ Infinite \in Nat /\ Disabled \in Nat
    /\ \A t \in Task : Class(t) \in Classes
    /\ \A t \in Adhoc : Class(t) \in {UserPollTask, CommandTask, SimpleRequestTask}
<1>1. Infinite \in Nat /\ Disabled \in Nat
  BY TasksAssumption DEF Infinite, Disabled
<1>2. \A t \in StartupTask : StartupClass[t] \in Classes
  BY DEF StartupTask, StartupClass, Classes
<1>3. \A t \in Adhoc : t \notin StartupTask /\ t \notin Polls
  BY MasterAssumption
<1>4. \A t \in Adhoc : Class(t) \in {UserPollTask, CommandTask, SimpleRequestTask}
  BY <1>3 DEF Class
<1>5. \A t \in Task : t \in StartupTask \/ t \in Polls \/ t \in Adhoc
  BY DEF Task, Recurring
<1>6. \A t \in Polls : Class(t) = UserPollTask
  BY MasterAssumption DEF Class
<1>7. \A t \in StartupTask : Class(t) \in Classes
  BY <1>2 DEF Class
<1> QED BY <1>1, <1>4, <1>5, <1>6, <1>7 DEF Classes

\* A class of tasks either blocks the lower priorities, or it is the last, or
\* that of a command or a request.
LEMMA ClassFacts ==
    \A k \in Classes :
        /\ k.priority \in Nat /\ k.priority <= 190 /\ k.blocks \in BOOLEAN
        /\ k.first \in Nat /\ k.otherwise \in Nat
        /\ \A x \in DOMAIN k.again : k.again[x] \in Nat
        /\ k.blocks <=> (110 < k.priority /\ k.priority < 190)
<1>1. Infinite \in Nat /\ Disabled \in Nat /\ RetryPeriod \in Nat /\ PollPeriod \in Nat
  BY TaskClasses, TasksAssumption
<1> SUFFICES ASSUME NEW k \in Classes
             PROVE  /\ k.priority \in Nat /\ k.priority <= 190 /\ k.blocks \in BOOLEAN
                    /\ k.first \in Nat /\ k.otherwise \in Nat
                    /\ \A x \in DOMAIN k.again : k.again[x] \in Nat
                    /\ k.blocks <=> (110 < k.priority /\ k.priority < 190)
  OBVIOUS
<1>2. CASE k = ClearRestartTask
  BY <1>1, <1>2 DEF ClearRestartTask
<1>3. CASE k = DisableUnsolicitedTask
  BY <1>1, <1>3 DEF DisableUnsolicitedTask
<1>4. CASE k = AssignClassTask
  BY <1>1, <1>4 DEF AssignClassTask
<1>5. CASE k = StartupIntegrityPoll
  BY <1>1, <1>5 DEF StartupIntegrityPoll
<1>6. CASE k = SerialTimeSyncTask
  BY <1>1, <1>6 DEF SerialTimeSyncTask
<1>7. CASE k = EnableUnsolicitedTask
  BY <1>1, <1>7 DEF EnableUnsolicitedTask
<1>8. CASE k = EventScanTask
  BY <1>1, <1>8 DEF EventScanTask
<1>9. CASE k = UserPollTask
  BY <1>1, <1>9 DEF UserPollTask
<1>10. CASE k = CommandTask
  BY <1>1, <1>10 DEF CommandTask
<1>11. CASE k = SimpleRequestTask
  BY <1>1, <1>11 DEF SimpleRequestTask
<1> QED BY <1>2, <1>3, <1>4, <1>5, <1>6, <1>7, <1>8, <1>9, <1>10, <1>11 DEF Classes

\* What the priorities of two tasks say of blocking, and the times a task is
\* given.
LEMMA TaskFacts ==
    ASSUME NEW t \in Task
    PROVE  /\ Priority(t) \in Nat /\ Priority(t) <= 190
           /\ BlocksLowerPriority(t) <=> (110 < Priority(t) /\ Priority(t) < 190)
           /\ BlocksLowerPriority(t) \in BOOLEAN
           /\ Priority(t) <= 110 => t \in Adhoc
           /\ Class(t).first \in Nat
           /\ \A x : OnTaskComplete(t, x) \in Nat
<1>1. Class(t) \in Classes
  BY TaskClasses
<1>2. ASSUME t \notin Adhoc PROVE Class(t) \in Classes \ {CommandTask, SimpleRequestTask}
  <2>1. CASE t \in Polls
    <3>1. Class(t) = UserPollTask
      BY <2>1, MasterAssumption DEF Class
    <3> QED BY <3>1 DEF Classes, UserPollTask, CommandTask, SimpleRequestTask
  <2>2. CASE t \in StartupTask
    <3>1. /\ DOMAIN StartupClass = StartupTask
          /\ \A x \in StartupTask : StartupClass[x].priority > 110
      BY DEF StartupTask, StartupClass, ClearRestartTask, DisableUnsolicitedTask,
             AssignClassTask, StartupIntegrityPoll, SerialTimeSyncTask, EnableUnsolicitedTask,
             EventScanTask
    <3>2. Class(t).priority > 110
      BY <2>2, <3>1 DEF Class
    <3>3. CommandTask.priority = 100 /\ SimpleRequestTask.priority = 110
      BY DEF CommandTask, SimpleRequestTask
    <3> QED BY <1>1, <3>2, <3>3
  <2> QED BY <1>2, <2>1, <2>2 DEF Task, Recurring
<1>3. \A k \in Classes \ {CommandTask, SimpleRequestTask} : k.priority > 110
  BY DEF Classes, ClearRestartTask, DisableUnsolicitedTask, AssignClassTask, StartupIntegrityPoll,
         SerialTimeSyncTask, EnableUnsolicitedTask, EventScanTask, UserPollTask
<1>4. Priority(t) <= 110 => t \in Adhoc
  BY <1>1, <1>2, <1>3, ClassFacts DEF Priority
<1> QED BY <1>1, <1>4, ClassFacts DEF Priority, BlocksLowerPriority, OnTaskComplete

\* The kinds of tasks are disjoint, and None is not one of them.
LEMMA TaskKinds ==
    /\ Recurring \subseteq Task /\ Adhoc \subseteq Task /\ Recurring \cap Adhoc = {}
    /\ Task \ Adhoc = Recurring
    /\ Range(StartupTasks) \subseteq StartupTask /\ StartupTask \subseteq Recurring
    /\ Polls \subseteq Recurring /\ Polls \cap StartupTask = {}
    /\ None \notin Task
    /\ \A t \in Adhoc : Class(t).first = 0
<1>1. Range(StartupTasks) \subseteq StartupTask
  BY MasterAssumption DEF Range
<1>2. \A t \in Adhoc : Class(t).first = 0
  BY TaskClasses DEF UserPollTask, CommandTask, SimpleRequestTask
<1> QED BY <1>1, <1>2, MasterAssumption DEF Recurring, Task

----------------------------------------------------------------------------
(* The order of the scheduler.                                              *)

\* The expirations e are defined, and a single-shot task of X is due at once.
Expirations(e, X) == e \in [Task -> Nat] /\ X \subseteq Task /\ \A x \in X \cap Adhoc : e[x] = 0

\* u is not preferred to t: it never runs again, or t runs as well and has a
\* higher priority, or the same and expires no later.
LosesTo(e, u, t) ==
    TaskEnabled(e, u) =>
        /\ TaskEnabled(e, t)
        /\ \/ Priority(t) < Priority(u)
           \/ Priority(t) = Priority(u) /\ e[t] <= e[u]

\* t is the task of X to look for.
First(e, X, t) == t \in X /\ \A u \in X : LosesTo(e, u, t)

\* LosesTo is transitive.
LEMMA LosesToAll ==
    ASSUME NEW e, e \in [Task -> Nat], NEW u \in Task, NEW v \in Task, NEW w \in Task,
           LosesTo(e, u, v), LosesTo(e, v, w)
    PROVE  LosesTo(e, u, w)
<1>1. /\ Priority(u) \in Nat /\ Priority(v) \in Nat /\ Priority(w) \in Nat
      /\ e[u] \in Nat /\ e[v] \in Nat /\ e[w] \in Nat
  BY TaskFacts
<1> QED BY <1>1 DEF LosesTo

\* Of two tasks, SelectHigherPriority prefers one to both.
LEMMA SelectionWins ==
    ASSUME NEW e, NEW l, NEW r, Expirations(e, {l, r})
    PROVE  LET t == SelectHigherPriority(e, l, r)
           IN  t \in {l, r} /\ LosesTo(e, l, t) /\ LosesTo(e, r, t)
<1>1. /\ Priority(l) \in Nat /\ Priority(r) \in Nat /\ Priority(l) <= 190 /\ Priority(r) <= 190
      /\ e[l] \in Nat /\ e[r] \in Nat /\ Infinite \in Nat
      /\ Priority(l) <= 110 => e[l] = 0
      /\ Priority(r) <= 110 => e[r] = 0
      /\ BlocksLowerPriority(l) <=> (110 < Priority(l) /\ Priority(l) < 190)
      /\ BlocksLowerPriority(r) <=> (110 < Priority(r) /\ Priority(r) < 190)
  BY TaskFacts, TaskClasses DEF Expirations
<1>2. CASE ~TaskEnabled(e, l) \/ ~TaskEnabled(e, r)
  BY <1>1, <1>2 DEF SelectHigherPriority, LosesTo, TaskEnabled
<1>3. CASE TaskEnabled(e, l) /\ TaskEnabled(e, r)
  <2> DEFINE t == SelectHigherPriority(e, l, r)
  <2>1. \/ Priority(r) < Priority(l) /\ t = r
        \/ Priority(l) < Priority(r) /\ t = l
        \/ Priority(l) = Priority(r) /\ t = l /\ e[l] <= e[r]
        \/ Priority(l) = Priority(r) /\ t = r /\ e[r] <= e[l]
    <3>1. CASE Priority(r) < Priority(l)
      <4>1. CASE BlocksLowerPriority(r)
        BY <1>3, <3>1, <4>1 DEF SelectHigherPriority
      <4>2. CASE ~BlocksLowerPriority(r)
        <5>1. e[r] = 0
          BY <1>1, <3>1, <4>2
        <5>2. t = Earlier(e, l, r)
          BY <1>1, <1>3, <3>1, <4>2 DEF SelectHigherPriority
        <5> QED BY <1>1, <3>1, <5>1, <5>2 DEF Earlier, HigherPriority
      <4> QED BY <4>1, <4>2
    <3>2. CASE Priority(l) < Priority(r)
      <4>1. CASE BlocksLowerPriority(l)
        BY <1>1, <1>3, <3>2, <4>1 DEF SelectHigherPriority
      <4>2. CASE ~BlocksLowerPriority(l)
        <5>1. e[l] = 0
          BY <1>1, <3>2, <4>2
        <5>2. t = Earlier(e, l, r)
          BY <1>1, <1>3, <3>2, <4>2 DEF SelectHigherPriority
        <5> QED BY <1>1, <3>2, <5>1, <5>2 DEF Earlier, HigherPriority
      <4> QED BY <4>1, <4>2
    <3>3. CASE Priority(l) = Priority(r)
      <4>1. t = Earlier(e, l, r)
        BY <1>1, <1>3, <3>3 DEF SelectHigherPriority
      <4> QED BY <1>1, <3>3, <4>1 DEF Earlier, HigherPriority
    <3> QED BY <1>1, <3>1, <3>2, <3>3
  <2> HIDE DEF t
  <2> QED BY <1>1, <1>3, <2>1 DEF LosesTo, t
<1> QED BY <1>2, <1>3

\* GetNextTask compares one task after the other with the best so far.
SelectStep(p, best, t) == SelectHigherPriority(p.e, best, t)
BestUpTo(p, m, best) ==
    /\ best \in p.X
    /\ \A k \in 1 .. m + 1 : LosesTo(p.e, p.s[k], best)

Selection == INSTANCE FoldSteps WITH Step <- SelectStep, Holds <- BestUpTo

\* What it returns is the task to look for.
LEMMA NextIsFirst ==
    ASSUME NEW e, NEW s, NEW X, Lists(s, X), Expirations(e, X), s # <<>>
    PROVE  First(e, X, GetNextTask(e, s))
<1> DEFINE p == [e |-> e, s |-> s, X |-> X]
           n == Len(Tail(s))
           b == Head(s)
<1>1. /\ s \in Seq(X) /\ b = s[1] /\ b \in X /\ DOMAIN Tail(s) = 1 .. n /\ n \in Nat
      /\ Len(s) = n + 1 /\ \A k \in 1 .. n : Tail(s)[k] = s[k + 1] /\ s[k + 1] \in X
  BY DEF Lists
<1>2. GetNextTask(e, s) = Selection!Folded(p, b, Tail(s))
  BY DEF GetNextTask, FoldLeft, MapThenFoldSet, Max, SelectStep,
         Selection!Folded, Selection!Folding, Selection!Largest
<1>3. \A x \in X : LosesTo(e, x, x)
  BY TaskFacts DEF LosesTo, Expirations
<1>4. BestUpTo(p, 0, b)
  BY <1>1, <1>3 DEF BestUpTo
<1>5. ASSUME NEW m \in 1 .. n, NEW x, BestUpTo(p, m - 1, x)
      PROVE  BestUpTo(p, m, SelectStep(p, x, Tail(s)[m]))
  <2> DEFINE u == Tail(s)[m]
             t == SelectHigherPriority(e, x, u)
  <2>1. x \in X /\ u \in X /\ u = s[m + 1] /\ X \subseteq Task /\ e \in [Task -> Nat]
    BY <1>1, <1>5 DEF BestUpTo, Expirations
  <2> HIDE DEF u
  <2>2. Expirations(e, {x, u})
    BY <2>1 DEF Expirations
  <2>3. t \in X /\ LosesTo(e, x, t) /\ LosesTo(e, u, t)
    BY <2>1, <2>2, SelectionWins
  <2> HIDE DEF t
  <2>4. ASSUME NEW k \in 1 .. m + 1 PROVE LosesTo(e, s[k], t)
    <3>1. CASE k = m + 1
      BY <2>1, <2>3, <3>1
    <3>2. CASE k # m + 1
      <4>1. k \in 1 .. (m - 1) + 1 /\ k \in 1 .. n + 1
        BY <3>2
      <4>2. s[k] \in X /\ LosesTo(e, s[k], x)
        BY <1>1, <1>5, <4>1 DEF BestUpTo
      <4> QED BY <2>1, <2>3, <4>2, LosesToAll
    <3> QED BY <3>1, <3>2
  <2> QED BY <2>3, <2>4 DEF BestUpTo, SelectStep, t, u
<1>6. BestUpTo(p, n, Selection!Folded(p, b, Tail(s)))
  <2> HIDE DEF p
  <2> QED BY <1>1, <1>4, <1>5, Selection!FoldInduction
<1>7. \A x \in X : \E k \in 1 .. n + 1 : x = s[k]
  BY <1>1 DEF Lists, Range
<1> QED BY <1>2, <1>6, <1>7 DEF First, BestUpTo

----------------------------------------------------------------------------
(* The records of a master and of a handler.                                *)

MasterFields ==
    {"isOnline", "isSending", "solSeq", "tstate", "active", "step", "tasks", "bound",
     "expiration", "startBy", "responseTimer", "scheduleTimer", "startTimer", "confirmQueue",
     "posted"}
HandlerFields == {"c", "lock", "sent", "called"}

USE DEF MasterFields, HandlerFields

\* d is c, but for the fields F.
Same(c, d, F) == DOMAIN d = DOMAIN c /\ \A f \in DOMAIN c \ F : d[f] = c[f]

Seqs == 0 .. SeqModulus - 1

\* The tasks that a master has to keep while it is online.
Mine(c) == Range(c.tasks) \cup ({c.active} \ {None})
Due(c)  == IF c.isOnline THEN Range(StartupTasks) \cup Range(c.bound) ELSE {}

\* At any point of a handler: the tasks are listed once, and are those that
\* the master has.
Sane(c) ==
    /\ DOMAIN c = MasterFields
    /\ c.isOnline \in BOOLEAN /\ c.isSending \in BOOLEAN /\ c.responseTimer \in BOOLEAN
    /\ c.tstate \in {"IDLE", "TASK_READY", "WAIT_FOR_RESPONSE"}
    /\ c.solSeq \in Seqs /\ c.posted \in Nat /\ c.scheduleTimer \in Nat
    /\ Lists(c.bound, Range(c.bound)) /\ Range(c.bound) \subseteq Polls
    /\ Lists(c.tasks, Range(c.tasks))
    /\ Expirations(c.expiration, Range(c.tasks))
    /\ c.active \in (Task \cup {None}) \ Range(c.tasks)
    /\ Mine(c) \ Adhoc = Due(c)
    /\ ~c.isOnline => Mine(c) = {}

\* Between two handlers: the state of the task, the timer and the active task
\* agree.
Timed(c) ==
    /\ c.responseTimer <=> c.tstate = "WAIT_FOR_RESPONSE"
    /\ (c.active = None) <=> c.tstate = "IDLE"
    /\ c.tstate # "IDLE" => c.isOnline

\* Scheduling a task adds it at the end.
LEMMA ScheduleEffect ==
    ASSUME NEW c, DOMAIN c = MasterFields, NEW t
    PROVE  /\ Same(c, Schedule(c, t), {"tasks", "startTimer"})
           /\ Schedule(c, t).tasks = Append(c.tasks, t)
<1> DEFINE d == [c EXCEPT !.tasks = Append(@, t)]
<1>1. Same(c, d, {"tasks"}) /\ d.tasks = Append(c.tasks, t)
  BY DEF Same
<1> HIDE DEF d
<1>2. Same(d, Recalculate(d), {"startTimer"})
  BY <1>1 DEF Recalculate, Same
<1> QED BY <1>1, <1>2 DEF Same, Schedule, d

\* Notify gives the task its next expiration and calls it.
LEMMA NotifyEffect ==
    ASSUME NEW h, DOMAIN h = HandlerFields, DOMAIN h.c = MasterFields,
           h.c.expiration \in [Task -> Nat], NEW t \in Task, NEW x
    PROVE  LET g == Notify(h, t, x)
           IN  /\ Same(h, g, {"c", "called"}) /\ Same(h.c, g.c, {"expiration"})
               /\ g.called = Append(h.called, t)
               /\ g.c.expiration \in [Task -> Nat]
               /\ \A u \in Task : u # t => g.c.expiration[u] = h.c.expiration[u]
<1> DEFINE g == Notify(h, t, x)
           n == OnTaskComplete(t, x)
<1>1. n \in Nat
  BY TaskFacts
<1> HIDE DEF n
<1>2. g = [h EXCEPT !.c = [h.c EXCEPT !.expiration = [h.c.expiration EXCEPT ![t] = n]],
                    !.called = Append(h.called, t)]
  BY DEF Notify, n
<1> DEFINE e == [h.c.expiration EXCEPT ![t] = n]
<1>3. e \in [Task -> Nat] /\ \A u \in Task : u # t => e[u] = h.c.expiration[u]
  BY <1>1
<1> HIDE DEF e
<1>4. /\ Same(h, g, {"c", "called"}) /\ g.called = Append(h.called, t)
      /\ g.c = [h.c EXCEPT !.expiration = e]
  BY <1>2 DEF Same, e
<1> HIDE DEF g
<1>5. Same(h.c, g.c, {"expiration"}) /\ g.c.expiration = e
  BY <1>4 DEF Same
<1> QED BY <1>3, <1>4, <1>5 DEF g

\* An active task that was notified is still one that the master has.
LEMMA NotifySane ==
    ASSUME NEW c, Sane(c), NEW d, Same(c, d, {"expiration"}), NEW t \in Task \ Range(c.tasks),
           d.expiration \in [Task -> Nat],
           \A u \in Task : u # t => d.expiration[u] = c.expiration[u]
    PROVE  Sane(d)
<1>1. /\ DOMAIN d = MasterFields /\ d.tasks = c.tasks /\ d.active = c.active
      /\ d.isOnline = c.isOnline /\ d.bound = c.bound
      /\ d.isSending = c.isSending /\ d.responseTimer = c.responseTimer
      /\ d.tstate = c.tstate /\ d.solSeq = c.solSeq /\ d.posted = c.posted
      /\ d.scheduleTimer = c.scheduleTimer
  BY DEF Same, Sane
<1>2. Expirations(d.expiration, Range(d.tasks))
  BY <1>1 DEF Expirations, Sane
<1> QED BY <1>1, <1>2 DEF Sane, Mine, Due

\* The end of the active task of h: a task that recurs is scheduled again, a
\* check is posted and the lock l is released.
Ends(h, g, i, l) ==
    /\ Sane(g.c)
    /\ Same(h.c, g.c, {"expiration", "tasks", "active", "tstate", "posted", "startTimer"})
    /\ g.c.active = None /\ g.c.tstate = "IDLE" /\ g.c.posted = h.c.posted + 1
    /\ Range(g.c.tasks) = Range(h.c.tasks) \cup ({h.c.active} \ Adhoc)
    /\ DOMAIN g = HandlerFields /\ g.lock = Release(l, i) /\ g.sent = h.sent

\* CompleteActiveTask ends it.
LEMMA CompleteEffect ==
    ASSUME NEW h, DOMAIN h = HandlerFields, Sane(h.c), h.c.active # None, h.c.isOnline, NEW i
    PROVE  LET g == CompleteActiveTask(h, i)
           IN  /\ Ends(h, g, i, h.lock)
               /\ g.c.expiration = h.c.expiration /\ g.called = h.called
<1> DEFINE t == h.c.active
           k == IF t \in Recurring THEN Schedule(h.c, t) ELSE h.c
           d == [Post(k) EXCEPT !.active = None, !.tstate = "IDLE"]
           g == CompleteActiveTask(h, i)
           X == Range(h.c.tasks)
<1>1. /\ Same(h.c, k, {"tasks", "startTimer"})
      /\ Lists(k.tasks, X \cup ({t} \ Adhoc))
  <2>1. t \in Task /\ t \notin X /\ Lists(h.c.tasks, X) /\ DOMAIN h.c = MasterFields
    BY DEF Sane
  <2>2. CASE t \in Recurring
    <3>1. X \cup ({t} \ Adhoc) = X \cup {t}
      BY <2>2, TaskKinds
    <3>2. k = Schedule(h.c, t)
      BY <2>2
    <3>3. Lists(Append(h.c.tasks, t), X \cup {t})
      BY <2>1, ListsAppend
    <3> HIDE DEF k, t, X
    <3> QED BY <2>1, <3>1, <3>2, <3>3, ScheduleEffect
  <2>3. CASE t \notin Recurring
    <3>1. X \cup ({t} \ Adhoc) = X
      BY <2>1, <2>3, TaskKinds
    <3>2. k = h.c
      BY <2>3
    <3> QED BY <2>1, <3>1, <3>2 DEF Same
  <2> QED BY <2>2, <2>3
<1> HIDE DEF k
<1>2. DOMAIN k = MasterFields /\ k.posted = h.c.posted /\ h.c.posted \in Nat
  BY <1>1 DEF Same, Sane
<1>3. /\ Same(k, d, {"active", "tstate", "posted"})
      /\ d.active = None /\ d.tstate = "IDLE" /\ d.posted = h.c.posted + 1
  BY <1>2 DEF Same, Post
<1>4. g = [h EXCEPT !.c = d, !.lock = Release(h.lock, i)]
  BY DEF CompleteActiveTask, k
<1> HIDE DEF d
<1>5. g.c = d /\ g.lock = Release(h.lock, i) /\ g.sent = h.sent /\ g.called = h.called /\ DOMAIN g = HandlerFields
  BY <1>4
<1>6. /\ Same(h.c, d, {"tasks", "active", "tstate", "posted", "startTimer"})
      /\ d.tasks = k.tasks /\ DOMAIN d = MasterFields
  BY <1>1, <1>2, <1>3 DEF Same
<1>7. Range(d.tasks) = X \cup ({t} \ Adhoc) /\ Lists(d.tasks, Range(d.tasks))
  BY <1>1, <1>6 DEF Lists
<1>8. /\ d.isOnline = h.c.isOnline /\ d.bound = h.c.bound /\ d.expiration = h.c.expiration
      /\ d.isSending = h.c.isSending /\ d.responseTimer = h.c.responseTimer
      /\ d.solSeq = h.c.solSeq /\ d.scheduleTimer = h.c.scheduleTimer
  BY <1>2, <1>6 DEF Same
<1>9. Expirations(d.expiration, Range(d.tasks))
  BY <1>7, <1>8 DEF Expirations, Sane
<1>10. Mine(d) \ Adhoc = Due(d)
  <2>1. Mine(h.c) \ Adhoc = Due(h.c) /\ Due(d) = Due(h.c)
    BY <1>8 DEF Sane, Due
  <2>2. Mine(h.c) = X \cup {t} /\ Mine(d) = X \cup ({t} \ Adhoc)
    BY <1>3, <1>7 DEF Mine
  <2> QED BY <2>1, <2>2
<1>11. Sane(d)
  <2>1. /\ d.isOnline \in BOOLEAN /\ d.isSending \in BOOLEAN /\ d.responseTimer \in BOOLEAN
        /\ d.solSeq \in Seqs /\ d.posted \in Nat /\ d.scheduleTimer \in Nat
        /\ Lists(d.bound, Range(d.bound)) /\ Range(d.bound) \subseteq Polls
        /\ d.isOnline
    BY <1>2, <1>3, <1>8 DEF Sane
  <2>2. None \notin Range(d.tasks)
    BY <1>9, TaskKinds DEF Expirations
  <2> QED BY <1>3, <1>6, <1>7, <1>9, <1>10, <2>1, <2>2 DEF Sane
<1> QED BY <1>3, <1>5, <1>6, <1>7, <1>8, <1>11 DEF Ends, Same

\* The active task of h waits for the lock, its request is sent, or none can
\* be built.
Queues(h, g, i) ==
    /\ Same(h, g, {"c", "lock"}) /\ Same(h.c, g.c, {"tstate"})
    /\ g.c.tstate = "TASK_READY"
    /\ g.lock = Acquire(h.lock, i) /\ g.lock.active # i

Sends(h, g, i) ==
    /\ Same(h, g, {"c", "lock", "sent"})
    /\ Same(h.c, g.c, {"tstate", "isSending", "responseTimer"})
    /\ g.c.tstate = "WAIT_FOR_RESPONSE" /\ g.c.isSending /\ g.c.responseTimer /\ g.sent
    /\ g.lock = Acquire(h.lock, i) /\ g.lock.active = i

Fails(h, g, i) ==
    /\ Ends(h, g, i, Acquire(h.lock, i)) /\ Acquire(h.lock, i).active = i
    /\ g.called = Append(h.called, h.c.active)

Goes(h, g, i) ==
    /\ DOMAIN g = HandlerFields /\ Sane(g.c)
    /\ Queues(h, g, i) \/ Sends(h, g, i) \/ Fails(h, g, i)

\* ResumeActiveTask does one of these.
LEMMA ResumeEffect ==
    ASSUME NEW h, DOMAIN h = HandlerFields, Sane(h.c), h.c.active # None, h.c.isOnline, NEW i
    PROVE  Goes(h, ResumeActiveTask(h, i), i)
<1> DEFINE l == Acquire(h.lock, i)
           k == [h EXCEPT !.lock = l]
           t == h.c.active
           n == Notify(k, t, "FAILURE_INTERNAL_ERROR")
           g == ResumeActiveTask(h, i)
<1> HIDE DEF l
<1>1. /\ DOMAIN k = HandlerFields /\ k.c = h.c /\ k.lock = l /\ k.sent = h.sent
      /\ k.called = h.called
  OBVIOUS
<1>2. t \in Task \ Range(h.c.tasks) /\ DOMAIN h.c = MasterFields
  BY DEF Sane
<1>3. g = IF l.active # i THEN [k EXCEPT !.c.tstate = "TASK_READY"]
          ELSE IF t \in Unbuildable THEN CompleteActiveTask(n, i)
          ELSE TransmitRequest(k)
  BY DEF ResumeActiveTask, l
<1>4. CASE l.active # i
  <2> DEFINE d == [h.c EXCEPT !.tstate = "TASK_READY"]
  <2>1. g = [k EXCEPT !.c = d]
    BY <1>1, <1>3, <1>4
  <2>2. Same(h.c, d, {"tstate"}) /\ d.tstate = "TASK_READY"
    BY <1>2 DEF Same
  <2>3. Sane(d)
    BY <1>2, <2>2 DEF Same, Sane, Mine, Due
  <2> HIDE DEF d, k
  <2>4. /\ DOMAIN g = HandlerFields /\ g.c = d /\ g.lock = l /\ Same(h, g, {"c", "lock"})
    BY <1>1, <2>1 DEF Same
  <2> QED BY <1>4, <2>2, <2>3, <2>4 DEF Goes, Queues, l
<1>5. CASE l.active = i /\ t \in Unbuildable
  <2> HIDE DEF k
  <2>1. /\ DOMAIN n = HandlerFields /\ n.lock = l /\ n.sent = h.sent
        /\ n.called = Append(h.called, t)
        /\ Same(h.c, n.c, {"expiration"}) /\ Sane(n.c)
    <3>1. h.c.expiration \in [Task -> Nat] /\ Sane(h.c)
      BY DEF Sane, Expirations
    <3>2. /\ Same(k, n, {"c", "called"}) /\ Same(h.c, n.c, {"expiration"})
          /\ n.called = Append(h.called, t)
          /\ n.c.expiration \in [Task -> Nat]
          /\ \A u \in Task : u # t => n.c.expiration[u] = h.c.expiration[u]
      BY <1>1, <1>2, <3>1, NotifyEffect
    <3> HIDE DEF n
    <3>3. Sane(n.c)
      BY <1>2, <3>1, <3>2, NotifySane
    <3> QED BY <1>1, <3>2, <3>3 DEF Same
  <2> HIDE DEF n
  <2>2. n.c.active = t /\ n.c.isOnline /\ n.c.tasks = h.c.tasks /\ n.c.posted = h.c.posted
    BY <1>2, <2>1 DEF Same
  <2>3. g = CompleteActiveTask(n, i)
    BY <1>3, <1>5
  <2> HIDE DEF g
  <2>4. Ends(n, g, i, l) /\ g.called = Append(h.called, t)
    BY <2>1, <2>2, <2>3, CompleteEffect
  <2>5. Ends(h, g, i, l)
    BY <2>1, <2>2, <2>4 DEF Ends, Same
  <2> QED BY <1>5, <2>4, <2>5 DEF Goes, Fails, Ends, l, g
<1>6. CASE l.active = i /\ t \notin Unbuildable
  <2> DEFINE d == [h.c EXCEPT !.isSending = TRUE, !.responseTimer = TRUE,
                              !.tstate = "WAIT_FOR_RESPONSE"]
  <2>1. g = [k EXCEPT !.c = d, !.sent = TRUE]
    BY <1>1, <1>2, <1>3, <1>6 DEF TransmitRequest
  <2>2. /\ Same(h.c, d, {"tstate", "isSending", "responseTimer"})
        /\ d.tstate = "WAIT_FOR_RESPONSE" /\ d.isSending = TRUE /\ d.responseTimer = TRUE
    BY <1>2 DEF Same
  <2>3. Sane(d)
    BY <1>2, <2>2 DEF Same, Sane, Mine, Due
  <2> HIDE DEF d, k
  <2>4. /\ DOMAIN g = HandlerFields /\ g.c = d /\ g.lock = l /\ Same(h, g, {"c", "lock", "sent"})
        /\ g.sent = TRUE
    BY <1>1, <2>1 DEF Same
  <2> QED BY <1>6, <2>2, <2>3, <2>4 DEF Goes, Sends, l
<1> QED BY <1>4, <1>5, <1>6

\* The task t, which is the one to look for and is due, becomes active.
Begins(h, k) ==
    LET t == k.c.active
    IN  /\ h.c.tstate = "IDLE" /\ ~h.c.isSending
        /\ Same(h, k, {"c"}) /\ Same(h.c, k.c, {"active", "step", "tasks"})
        /\ DOMAIN k = HandlerFields /\ Sane(k.c)
        /\ First(h.c.expiration, Range(h.c.tasks), t) /\ h.c.expiration[t] = 0
        /\ Range(k.c.tasks) = Range(h.c.tasks) \ {t}

\* The master looked for a task, and there is none, or the schedule timer runs
\* until the first is due.
Looks(h, g) ==
    /\ Same(h, g, {"c"}) /\ Same(h.c, g.c, {"scheduleTimer"})
    /\ DOMAIN g = HandlerFields /\ Sane(g.c)
    /\ h.c.isOnline /\ h.c.tstate = "IDLE" /\ ~h.c.isSending
         => \A t \in Range(h.c.tasks) :
               First(h.c.expiration, Range(h.c.tasks), t) /\ TaskEnabled(h.c.expiration, t)
                  => g.c.scheduleTimer <= h.c.expiration[t]

\* StartTask_Idle.
LEMMA IdleEffect ==
    ASSUME NEW h, DOMAIN h = HandlerFields, Sane(h.c), h.c.active = None, h.c.isOnline,
           h.c.tstate = "IDLE", NEW i
    PROVE  LET g == StartTask_Idle(h, i)
           IN  \/ Looks(h, g)
               \/ \E k : Begins(h, k) /\ Goes(k, g, i)
<1> DEFINE e == h.c.expiration
           X == Range(h.c.tasks)
           t == GetNextTask(e, h.c.tasks)
           g == StartTask_Idle(h, i)
<1>1. Lists(h.c.tasks, X) /\ Expirations(e, X) /\ DOMAIN h.c = MasterFields
  BY DEF Sane
<1>2. CASE h.c.isSending
  <2>1. g = h
    BY <1>2 DEF StartTask_Idle
  <2> QED BY <1>2, <2>1 DEF Looks, Same
<1>3. CASE h.c.tasks = <<>>
  <2>1. g = h /\ X = {}
    BY <1>1, <1>3, ListsNone DEF StartTask_Idle
  <2> QED BY <2>1 DEF Looks, Same
<1>4. ASSUME ~h.c.isSending, h.c.tasks # <<>>
      PROVE  Looks(h, g) \/ \E k : Begins(h, k) /\ Goes(k, g, i)
  <2>1. First(e, X, t)
    BY <1>1, <1>4, NextIsFirst
  <2>2. /\ g = IF e[t] = 0 THEN BeginNewTask(h, i, t)
               ELSE IF e[t] < Infinite THEN [h EXCEPT !.c.scheduleTimer = e[t]]
               ELSE h
    BY <1>4 DEF StartTask_Idle
  <2>3. t \in Task /\ e[t] \in Nat /\ t \in X
    BY <1>1, <2>1 DEF First, Expirations
  <2> HIDE DEF t
  <2>4. CASE e[t] = 0
    <3> DEFINE d == [h.c EXCEPT !.active = t, !.step = 0, !.tasks = RemoveFirst(h.c.tasks, t)]
               k == [h EXCEPT !.c = d]
    <3>1. g = ResumeActiveTask(k, i)
      BY <2>2, <2>4 DEF BeginNewTask
    <3>2. /\ Same(h.c, d, {"active", "step", "tasks"})
          /\ d.active = t /\ d.tasks = RemoveFirst(h.c.tasks, t)
      BY <1>1 DEF Same
    <3>3. Lists(d.tasks, X \ {t})
      BY <1>1, <2>3, <3>2, ListsRemove
    <3>4. Range(d.tasks) = X \ {t}
      BY <3>3 DEF Lists
    <3> HIDE DEF d
    <3>5. Sane(d)
      <4>1. /\ DOMAIN d = MasterFields /\ d.expiration = e /\ d.isOnline = h.c.isOnline
            /\ d.bound = h.c.bound
            /\ d.isSending = h.c.isSending /\ d.responseTimer = h.c.responseTimer
            /\ d.tstate = h.c.tstate /\ d.solSeq = h.c.solSeq /\ d.posted = h.c.posted
            /\ d.scheduleTimer = h.c.scheduleTimer
        BY <1>1, <3>2 DEF Same
      <4>2. Expirations(d.expiration, Range(d.tasks))
        BY <1>1, <3>4, <4>1 DEF Expirations
      <4>3. Mine(d) = Mine(h.c) /\ Due(d) = Due(h.c)
        BY <2>3, <3>2, <3>4, <4>1, TaskKinds DEF Mine, Due
      <4> QED BY <2>3, <3>2, <3>3, <3>4, <4>1, <4>2, <4>3 DEF Sane
    <3>6. DOMAIN k = HandlerFields /\ k.c = d /\ Same(h, k, {"c"})
      BY DEF Same
    <3> HIDE DEF k
    <3>7. Begins(h, k)
      BY <1>4, <2>1, <2>4, <3>2, <3>4, <3>5, <3>6 DEF Begins
    <3>8. k.c.active # None /\ k.c.isOnline
      BY <1>1, <2>3, <3>2, <3>6, TaskKinds DEF Same
    <3>9. Goes(k, g, i)
      BY <3>1, <3>5, <3>6, <3>8, ResumeEffect
    <3> QED BY <3>7, <3>9
  <2>5. CASE e[t] # 0 /\ e[t] < Infinite
    <3> DEFINE d == [h.c EXCEPT !.scheduleTimer = e[t]]
    <3>1. g = [h EXCEPT !.c = d]
      BY <2>2, <2>5
    <3>2. Same(h.c, d, {"scheduleTimer"}) /\ d.scheduleTimer = e[t]
      BY <1>1 DEF Same
    <3>3. Sane(d)
      BY <1>1, <2>3, <3>2 DEF Same, Sane, Mine, Due
    <3> HIDE DEF d
    <3>4. Same(h, g, {"c"}) /\ g.c = d /\ DOMAIN g = HandlerFields
      BY <3>1 DEF Same
    <3>5. ASSUME NEW u \in X, First(e, X, u), TaskEnabled(e, u)
          PROVE  e[t] <= e[u]
      <4>1. LosesTo(e, u, t) /\ LosesTo(e, t, u)
        BY <2>1, <2>3, <3>5 DEF First
      <4>2. Priority(u) \in Nat /\ Priority(t) \in Nat /\ TaskEnabled(e, t)
        BY <1>1, <2>3, <2>5, TaskFacts DEF Expirations, TaskEnabled
      <4> QED BY <3>5, <4>1, <4>2 DEF LosesTo
    <3> QED BY <3>2, <3>3, <3>4, <3>5 DEF Looks
  <2>6. CASE e[t] # 0 /\ ~(e[t] < Infinite)
    <3>1. g = h
      BY <2>2, <2>6
    <3>2. ASSUME NEW u \in X, First(e, X, u), TaskEnabled(e, u) PROVE FALSE
      BY <2>1, <2>6, <3>2 DEF First, LosesTo, TaskEnabled
    <3> QED BY <3>1, <3>2 DEF Looks, Same
  <2> QED BY <2>4, <2>5, <2>6
<1> QED BY <1>2, <1>3, <1>4

\* The active task waits for the transmission under way to end.
Waits(h, g) ==
    /\ Same(h, g, {"c"}) /\ Same(h.c, g.c, {"tstate"})
    /\ DOMAIN g = HandlerFields /\ Sane(g.c)
    /\ g.c.tstate = "TASK_READY" /\ g.c.isSending

\* StartTask_TaskReady.
LEMMA ReadyEffect ==
    ASSUME NEW h, DOMAIN h = HandlerFields, Sane(h.c), h.c.active # None, h.c.isOnline, NEW i
    PROVE  LET g == StartTask_TaskReady(h, i)
           IN  Waits(h, g) \/ (~h.c.isSending /\ Goes(h, g, i))
<1> DEFINE g == StartTask_TaskReady(h, i)
           d == [h.c EXCEPT !.tstate = "TASK_READY"]
<1>1. CASE h.c.isSending
  <2>1. g = [h EXCEPT !.c = d]
    BY <1>1 DEF StartTask_TaskReady
  <2>2. Same(h.c, d, {"tstate"}) /\ d.tstate = "TASK_READY" /\ d.isSending = h.c.isSending
    BY DEF Same, Sane
  <2>3. Sane(d)
    BY <2>2 DEF Same, Sane, Mine, Due
  <2> HIDE DEF d
  <2>4. Same(h, g, {"c"}) /\ g.c = d /\ DOMAIN g = HandlerFields
    BY <2>1 DEF Same
  <2> QED BY <1>1, <2>2, <2>3, <2>4 DEF Waits
<1>2. CASE ~h.c.isSending
  BY <1>2, ResumeEffect DEF StartTask_TaskReady
<1> QED BY <1>1, <1>2

Ok(h) == DOMAIN h = HandlerFields /\ Sane(h.c) /\ Timed(h.c)

\* What CheckForTask does.
Checks(h, g, i) ==
    \/ h.c.tstate # "TASK_READY" /\ Looks(h, g)
    \/ h.c.tstate = "TASK_READY" /\ Waits(h, g)
    \/ h.c.tstate = "TASK_READY" /\ ~h.c.isSending /\ Goes(h, g, i)
    \/ \E k : Begins(h, k) /\ Goes(k, g, i)

\* CheckForTask, whenever no task is in the middle of a step.
LEMMA CheckEffect ==
    ASSUME NEW h, Ok(h), NEW i
    PROVE  Checks(h, CheckForTask(h, i), i)
<1> DEFINE g == CheckForTask(h, i)
<1>1. DOMAIN h = HandlerFields /\ Sane(h.c) /\ Timed(h.c)
  BY DEF Ok
<1>2. CASE ~h.c.isOnline
  <2>1. g = h
    BY <1>2 DEF CheckForTask
  <2> QED BY <1>1, <1>2, <2>1 DEF Checks, Looks, Same, Timed
<1>3. CASE h.c.isOnline /\ h.c.tstate = "IDLE"
  <2>1. g = StartTask_Idle(h, i)
    BY <1>3 DEF CheckForTask
  <2>2. h.c.active = None
    BY <1>1, <1>3 DEF Timed
  <2> HIDE DEF g
  <2> QED BY <1>1, <1>3, <2>1, <2>2, IdleEffect DEF Checks, g
<1>4. CASE h.c.isOnline /\ h.c.tstate = "TASK_READY"
  <2>1. g = StartTask_TaskReady(h, i)
    BY <1>4 DEF CheckForTask
  <2>2. h.c.active # None
    BY <1>1, <1>4 DEF Timed
  <2> HIDE DEF g
  <2> QED BY <1>1, <1>4, <2>1, <2>2, ReadyEffect DEF Checks, g
<1>5. CASE h.c.isOnline /\ h.c.tstate = "WAIT_FOR_RESPONSE"
  <2>1. g = h
    BY <1>5 DEF CheckForTask
  <2> QED BY <1>1, <1>5, <2>1 DEF Checks, Looks, Same
<1> QED BY <1>1, <1>2, <1>3, <1>4, <1>5 DEF Sane

\* A task that goes on without a response timer leaves the master in order.
LEMMA GoesOk ==
    ASSUME NEW h, DOMAIN h = HandlerFields, Sane(h.c), h.c.active # None, h.c.isOnline,
           ~h.c.responseTimer, NEW i, NEW g, Waits(h, g) \/ Goes(h, g, i)
    PROVE  Ok(g)
<1>1. DOMAIN h.c = MasterFields
  BY DEF Sane
<1>2. CASE Waits(h, g)
  BY <1>1, <1>2 DEF Waits, Ok, Timed, Same
<1>3. CASE Goes(h, g, i) /\ Queues(h, g, i)
  BY <1>1, <1>3 DEF Goes, Queues, Ok, Timed, Same
<1>4. CASE Goes(h, g, i) /\ Sends(h, g, i)
  BY <1>1, <1>4 DEF Goes, Sends, Ok, Timed, Same
<1>5. CASE Goes(h, g, i) /\ Fails(h, g, i)
  BY <1>1, <1>5 DEF Goes, Fails, Ends, Ok, Timed, Same
<1> QED BY <1>2, <1>3, <1>4, <1>5 DEF Goes

\* What a check may change.
CheckFields == {"tasks", "active", "step", "tstate", "isSending", "responseTimer", "posted",
                "startTimer", "scheduleTimer", "expiration"}

\* CheckForTask leaves the master in order.
LEMMA CheckOk ==
    ASSUME NEW h, Ok(h), NEW i, NEW g, Checks(h, g, i)
    PROVE  Ok(g) /\ Same(h.c, g.c, CheckFields)
<1>1. DOMAIN h = HandlerFields /\ Sane(h.c) /\ Timed(h.c) /\ DOMAIN h.c = MasterFields
  BY DEF Ok, Sane
<1>2. CASE Looks(h, g)
  BY <1>1, <1>2 DEF Looks, Ok, Timed, Same, CheckFields
<1>3. CASE h.c.tstate = "TASK_READY" /\ (Waits(h, g) \/ Goes(h, g, i))
  <2>1. h.c.active # None /\ h.c.isOnline /\ ~h.c.responseTimer
    BY <1>1, <1>3 DEF Timed
  <2>2. Ok(g)
    BY <1>1, <1>3, <2>1, GoesOk
  <2> QED BY <1>1, <1>3, <2>2 DEF Waits, Goes, Queues, Sends, Fails, Ends, Same, CheckFields
<1>4. ASSUME NEW k, Begins(h, k), Goes(k, g, i)
      PROVE  Ok(g) /\ Same(h.c, g.c, CheckFields)
  <2>1. /\ DOMAIN k = HandlerFields /\ Sane(k.c) /\ DOMAIN k.c = MasterFields
        /\ Same(h.c, k.c, {"active", "step", "tasks"}) /\ k.c.active \in Range(h.c.tasks)
    BY <1>4 DEF Begins, Sane, First
  <2>2. k.c.active # None
    BY <1>1, <2>1, TaskKinds DEF Sane, Expirations
  <2>3. k.c.isOnline /\ ~k.c.responseTimer
    <3>1. Range(h.c.tasks) \subseteq Mine(h.c)
      BY DEF Mine
    <3> QED BY <1>1, <1>4, <2>1, <3>1 DEF Begins, Same, Sane, Timed
  <2>4. Ok(g)
    BY <1>4, <2>1, <2>2, <2>3, GoesOk
  <2> QED BY <1>4, <2>1, <2>4 DEF Goes, Queues, Sends, Fails, Ends, Same, CheckFields
<1> QED BY <1>2, <1>3, <1>4 DEF Checks

\* The next task that is due will be looked for.
Seen(c) ==
    c.isOnline /\ c.tstate = "IDLE" /\ ~c.isSending =>
        \A t \in Range(c.tasks) :
            First(c.expiration, Range(c.tasks), t) /\ TaskEnabled(c.expiration, t)
                => c.posted > 0 \/ c.scheduleTimer <= c.expiration[t]

\* After a check it is.
LEMMA CheckSeen ==
    ASSUME NEW h, Ok(h), NEW i, NEW g, Checks(h, g, i)
    PROVE  Seen(g.c)
<1>1. DOMAIN h.c = MasterFields
  BY DEF Ok, Sane
<1>2. CASE Looks(h, g)
  BY <1>1, <1>2 DEF Looks, Seen, Same
<1>3. CASE Waits(h, g)
  BY <1>3 DEF Waits, Seen
<1>4. ASSUME NEW k, Goes(k, g, i), Sane(k.c) PROVE Seen(g.c)
  <2>1. k.c.posted \in Nat
    BY <1>4 DEF Sane
  <2> QED BY <1>4, <2>1 DEF Goes, Queues, Sends, Fails, Ends, Seen
<1> QED BY <1>2, <1>3, <1>4 DEF Checks, Begins, Ok

\* The task that a check makes active has the highest priority.
LEMMA CheckStartsFirst ==
    ASSUME NEW h, Ok(h), NEW i, NEW g, Checks(h, g, i), h.c.active = None, g.c.active # None
    PROVE  \A u \in Range(g.c.tasks) : LosesTo(h.c.expiration, u, g.c.active)
<1>1. Sane(h.c) /\ Timed(h.c) /\ DOMAIN h.c = MasterFields
  BY DEF Ok, Sane
<1>2. ~Looks(h, g)
  BY <1>1 DEF Looks, Same
<1>3. h.c.tstate # "TASK_READY"
  BY <1>1 DEF Timed
<1>4. PICK k : Begins(h, k) /\ Goes(k, g, i)
  BY <1>2, <1>3 DEF Checks
<1>5. DOMAIN k.c = MasterFields
  BY <1>4 DEF Begins, Sane
<1>6. g.c.active = k.c.active /\ g.c.tasks = k.c.tasks
  BY <1>4, <1>5 DEF Goes, Queues, Sends, Fails, Ends, Same
<1> QED BY <1>4, <1>6 DEF Begins, First

\* A check sends a request if it leaves the master waiting for a response.
LEMMA CheckSends ==
    ASSUME NEW h, Ok(h), NEW i, NEW g, Checks(h, g, i), ~h.sent
    PROVE  /\ g.sent => h.c.tstate # "WAIT_FOR_RESPONSE" /\ g.c.tstate = "WAIT_FOR_RESPONSE"
           /\ ~g.sent /\ g.c.tstate = "WAIT_FOR_RESPONSE" => h.c.tstate = "WAIT_FOR_RESPONSE"
<1>1. DOMAIN h = HandlerFields /\ DOMAIN h.c = MasterFields
  BY DEF Ok, Sane
<1>2. CASE Looks(h, g) \/ (h.c.tstate = "TASK_READY" /\ Waits(h, g))
  BY <1>1, <1>2 DEF Looks, Waits, Same
<1>3. CASE h.c.tstate = "TASK_READY" /\ Goes(h, g, i)
  BY <1>1, <1>3 DEF Goes, Queues, Sends, Fails, Ends, Same
<1>4. ASSUME NEW k, Begins(h, k), Goes(k, g, i)
      PROVE  /\ g.sent => h.c.tstate # "WAIT_FOR_RESPONSE" /\ g.c.tstate = "WAIT_FOR_RESPONSE"
             /\ ~g.sent /\ g.c.tstate = "WAIT_FOR_RESPONSE" => h.c.tstate = "WAIT_FOR_RESPONSE"
  <2>1. DOMAIN k = HandlerFields /\ k.sent = h.sent /\ h.c.tstate = "IDLE"
    BY <1>1, <1>4 DEF Begins, Same
  <2> QED BY <1>4, <2>1 DEF Goes, Queues, Sends, Fails, Ends, Same
<1> QED BY <1>2, <1>3, <1>4 DEF Checks

\* A handler calls no callback and keeps its tasks, or calls that of one task,
\* which it does not keep if it is single-shot.
Tells(h, g) ==
    \/ g.called = h.called /\ Mine(g.c) = Mine(h.c)
    \/ \E t \in Mine(h.c) :
          g.called = Append(h.called, t) /\ Mine(g.c) = Mine(h.c) \ ({t} \cap Adhoc)

\* A task that goes on is kept, and one that ends is told.
LEMMA GoesTells ==
    ASSUME NEW h, DOMAIN h = HandlerFields, Sane(h.c), h.c.active # None, NEW i,
           NEW g, Waits(h, g) \/ Goes(h, g, i)
    PROVE  Tells(h, g)
<1>1. DOMAIN h.c = MasterFields /\ h.c.active \in Task \ Range(h.c.tasks)
  BY DEF Sane
<1>2. CASE Waits(h, g)
  BY <1>1, <1>2 DEF Waits, Tells, Same, Mine
<1>3. CASE Goes(h, g, i) /\ (Queues(h, g, i) \/ Sends(h, g, i))
  BY <1>1, <1>3 DEF Queues, Sends, Tells, Same, Mine
<1>4. CASE Goes(h, g, i) /\ Fails(h, g, i)
  <2>1. g.called = Append(h.called, h.c.active)
    BY <1>4 DEF Fails
  <2>2. Range(g.c.tasks) = Range(h.c.tasks) \cup ({h.c.active} \ Adhoc) /\ g.c.active = None
    BY <1>4 DEF Fails, Ends
  <2>3. h.c.active \in Mine(h.c) /\ Mine(g.c) = Mine(h.c) \ ({h.c.active} \cap Adhoc)
    BY <1>1, <2>2 DEF Mine
  <2> QED BY <2>1, <2>3 DEF Tells
<1> QED BY <1>2, <1>3, <1>4 DEF Goes

\* So does a check.
LEMMA CheckTells ==
    ASSUME NEW h, Ok(h), NEW i, NEW g, Checks(h, g, i)
    PROVE  Tells(h, g)
<1>1. DOMAIN h = HandlerFields /\ Sane(h.c) /\ Timed(h.c) /\ DOMAIN h.c = MasterFields
  BY DEF Ok, Sane
<1>2. CASE Looks(h, g)
  BY <1>1, <1>2 DEF Looks, Tells, Same, Mine
<1>3. CASE h.c.tstate = "TASK_READY" /\ (Waits(h, g) \/ Goes(h, g, i))
  BY <1>1, <1>3, GoesTells DEF Timed
<1>4. ASSUME NEW k, Begins(h, k), Goes(k, g, i) PROVE Tells(h, g)
  <2>1. /\ DOMAIN k = HandlerFields /\ Sane(k.c) /\ k.called = h.called
        /\ k.c.active \in Range(h.c.tasks) /\ Range(k.c.tasks) = Range(h.c.tasks) \ {k.c.active}
    BY <1>1, <1>4 DEF Begins, First, Same
  <2>2. k.c.active # None /\ h.c.active = None
    BY <1>1, <1>4, <2>1, TaskKinds DEF Sane, Expirations, Begins, Timed
  <2>3. Mine(k.c) = Mine(h.c)
    BY <2>1, <2>2 DEF Mine
  <2>4. Tells(k, g)
    BY <1>4, <2>1, <2>2, GoesTells
  <2> QED BY <2>1, <2>3, <2>4 DEF Tells
<1> QED BY <1>2, <1>3, <1>4 DEF Checks

----------------------------------------------------------------------------
(* The lock.                                                                *)

\* The lock is with one master or free, none is queued for a free lock, and a
\* master that it was reset for is in neither place.
InOrder(l) ==
    /\ DOMAIN l = {"isOnline", "active", "queue", "woken", "known"}
    /\ l.isOnline \in BOOLEAN
    /\ l.active \in (Masters \cup {None}) \ Range(l.queue)
    /\ Lists(l.queue, Range(l.queue)) /\ Range(l.queue) \subseteq l.known
    /\ l.known \subseteq Masters /\ l.active \in l.known \cup {None}
    /\ l.active = None => l.queue = <<>>
    /\ ~l.isOnline => l.known = {}

\* The masters other than i keep their places in the lock, but that the first
\* in the queue may be handed it, and is told.
OthersStay(l, m, i) ==
    \A j \in Masters \ {i} :
        /\ j \in l.known <=> j \in m.known
        /\ l.active = j <=> m.active = j
        /\ j \in Range(l.queue) <=> j \in Range(m.queue)

OthersPass(l, m, i) ==
    \A j \in Masters \ {i} :
        /\ j \in l.known <=> j \in m.known
        /\ m.active = j => l.active = j \/ j \in Range(l.queue)
        /\ j \in Range(m.queue) => j \in Range(l.queue)
        /\ l.active = j => m.active = j
        /\ j \in Range(l.queue) => j \in Range(m.queue) \/ (m.active = j /\ j \in m.woken)

\* Who acquires the lock has it or is queued for it, unless it is not up.
LEMMA AcquireEffect ==
    ASSUME NEW l, InOrder(l), NEW i \in Masters
    PROVE  LET m == Acquire(l, i)
           IN  /\ InOrder(m) /\ OthersStay(l, m, i)
               /\ i \in m.known => m.active = i \/ i \in Range(m.queue)
<1> DEFINE m == Acquire(l, i)
           Q == Range(l.queue)
           K == l.known \cup {i}
           k == [l EXCEPT !.known = K]
<1>1. CASE ~l.isOnline \/ l.active = i
  <2>1. m = l
    BY <1>1 DEF Acquire
  <2> QED BY <1>1, <2>1 DEF OthersStay, InOrder
<1>2. CASE l.isOnline /\ l.active # i /\ l.active = None
  <2>1. None # i
    BY MastersAssumption
  <2>2. m = [l EXCEPT !.known = K, !.active = i]
    BY <1>2 DEF Acquire
  <2>3. Q = {}
    BY <1>2, ListsNone DEF InOrder
  <2>4. /\ DOMAIN m = {"isOnline", "active", "queue", "woken", "known"}
        /\ m.isOnline = l.isOnline /\ m.active = i /\ m.queue = l.queue /\ m.known = K
    BY <2>2 DEF InOrder
  <2> HIDE DEF m
  <2>5. InOrder(m)
    BY <1>2, <2>1, <2>3, <2>4 DEF InOrder
  <2> QED BY <1>2, <2>1, <2>3, <2>4, <2>5, MastersAssumption DEF OthersStay, m
<1>3. CASE l.isOnline /\ l.active # i /\ l.active # None
  <2>1. m = IF Contains(k.queue, i) THEN k ELSE [k EXCEPT !.queue = Append(k.queue, i)]
    BY <1>3 DEF Acquire, AddIfNotContained
  <2>2. /\ DOMAIN k = {"isOnline", "active", "queue", "woken", "known"}
        /\ k.isOnline = l.isOnline /\ k.active = l.active /\ k.queue = l.queue /\ k.known = K
    BY DEF InOrder
  <2> HIDE DEF k
  <2>3. Contains(k.queue, i) <=> i \in Q
    BY <2>2, ListsContains DEF InOrder
  <2>4. CASE i \in Q
    <3>1. m = k
      BY <2>1, <2>3, <2>4
    <3> HIDE DEF m
    <3>2. InOrder(m)
      BY <1>3, <2>2, <3>1 DEF InOrder
    <3> QED BY <2>2, <2>4, <3>1, <3>2 DEF OthersStay, m
  <2>5. CASE i \notin Q
    <3> DEFINE q == Append(l.queue, i)
    <3>1. Lists(q, Q \cup {i})
      BY <2>5, ListsAppend DEF InOrder
    <3>2. Range(q) = Q \cup {i}
      BY <3>1 DEF Lists
    <3>3. m = [k EXCEPT !.queue = q]
      BY <2>1, <2>2, <2>3, <2>5
    <3> HIDE DEF q, m
    <3>4. /\ DOMAIN m = {"isOnline", "active", "queue", "woken", "known"}
          /\ m.isOnline = l.isOnline /\ m.active = l.active /\ m.queue = q /\ m.known = K
      BY <2>2, <3>3
    <3>5. InOrder(m)
      BY <1>3, <3>1, <3>2, <3>4 DEF InOrder
    <3> QED BY <3>2, <3>4, <3>5 DEF OthersStay, m
  <2> QED BY <2>4, <2>5
<1> QED BY <1>1, <1>2, <1>3

\* Who releases the lock has no place in it, and the first in the queue gets it;
\* it may have lost the lock before.
LEMMA ReleaseEffect ==
    ASSUME NEW l, InOrder(l), NEW i \in Masters, i \notin Range(l.queue)
    PROVE  LET m == Release(l, i)
           IN  /\ InOrder(m) /\ OthersPass(l, m, i)
               /\ m.active # i /\ i \notin Range(m.queue)
<1> DEFINE m == Release(l, i)
           Q == Range(l.queue)
<1>1. None # i /\ Lists(l.queue, Q) /\ Q \subseteq Masters /\ Q \subseteq l.known
  BY MastersAssumption DEF InOrder
<1>2. CASE ~l.isOnline \/ l.active # i
  <2>1. m = l
    BY <1>2 DEF Release
  <2> HIDE DEF m
  <2>2. l.active # i
    BY <1>1, <1>2 DEF InOrder
  <2> QED BY <2>1, <2>2 DEF OthersPass, m
<1>3. CASE l.isOnline /\ l.active = i /\ l.queue = <<>>
  <2>1. m = [l EXCEPT !.active = None]
    BY <1>3 DEF Release
  <2>2. Q = {}
    BY <1>1, <1>3, ListsNone
  <2>3. /\ DOMAIN m = {"isOnline", "active", "queue", "woken", "known"}
        /\ m.isOnline = l.isOnline /\ m.active = None /\ m.queue = l.queue /\ m.known = l.known
    BY <2>1 DEF InOrder
  <2> HIDE DEF m
  <2>4. InOrder(m)
    BY <1>1, <1>3, <2>2, <2>3 DEF InOrder
  <2> QED BY <1>1, <1>3, <2>2, <2>3, <2>4, MastersAssumption DEF OthersPass, m
<1>4. CASE l.isOnline /\ l.active = i /\ l.queue # <<>>
  <2> DEFINE a == Head(l.queue)
             q == Tail(l.queue)
  <2>1. m = [l EXCEPT !.active = a, !.queue = q, !.woken = {a}]
    BY <1>4 DEF Release
  <2>2. a \in Q /\ Lists(q, Q \ {a})
    BY <1>1, <1>4, ListsTail
  <2>3. Range(q) = Q \ {a}
    BY <2>2 DEF Lists
  <2> HIDE DEF a, q
  <2>4. /\ DOMAIN m = {"isOnline", "active", "queue", "woken", "known"}
        /\ m.isOnline = l.isOnline /\ m.active = a /\ m.queue = q /\ m.woken = {a}
        /\ m.known = l.known
    BY <2>1 DEF InOrder
  <2> HIDE DEF m
  <2>5. InOrder(m)
    BY <1>1, <1>4, <2>2, <2>3, <2>4, MastersAssumption DEF InOrder
  <2> QED BY <1>1, <1>4, <2>2, <2>3, <2>4, <2>5 DEF OthersPass, m
<1> QED BY <1>2, <1>3, <1>4

\* The place of master i in the lock l is that of its task, unless the lock was
\* reset and has not heard of i since.
Placed(l, i, c) ==
    /\ l.active = i => c.tstate # "IDLE"
    /\ i \in Range(l.queue) => c.tstate = "TASK_READY"
    /\ i \in l.known /\ c.tstate = "WAIT_FOR_RESPONSE" => l.active = i
    /\ i \in l.known /\ c.tstate = "TASK_READY" => l.active = i \/ i \in Range(l.queue)

\* And it will look for its task when the lock was handed to it.
Ready(l, i, c) ==
    i \in l.known /\ c.tstate = "TASK_READY" =>
        i \in Range(l.queue) \/ (l.active = i /\ (c.isSending \/ c.posted > 0))

Passes(h, g, i) ==
    /\ InOrder(g.lock) /\ OthersPass(h.lock, g.lock, i)
    /\ Placed(g.lock, i, g.c) /\ Ready(g.lock, i, g.c)

\* A task that goes on leaves the lock in order.
LEMMA GoesPasses ==
    ASSUME NEW h, InOrder(h.lock), NEW i \in Masters, NEW g, Goes(h, g, i)
    PROVE  Passes(h, g, i)
<1> DEFINE m == Acquire(h.lock, i)
<1>1. /\ InOrder(m) /\ OthersStay(h.lock, m, i)
      /\ i \in m.known => m.active = i \/ i \in Range(m.queue)
  BY AcquireEffect
<1> HIDE DEF m
<1>2. OthersPass(h.lock, m, i)
  BY <1>1 DEF OthersStay, OthersPass
<1>3. CASE Queues(h, g, i) \/ Sends(h, g, i)
  BY <1>1, <1>2, <1>3 DEF Queues, Sends, Passes, Placed, Ready, InOrder, m
<1>4. CASE Fails(h, g, i)
  <2>1. m.active = i /\ g.lock = Release(m, i) /\ g.c.tstate = "IDLE"
    BY <1>4 DEF Fails, Ends, m
  <2>2. /\ InOrder(g.lock) /\ OthersPass(m, g.lock, i)
        /\ g.lock.active # i /\ i \notin Range(g.lock.queue)
    <3>1. InOrder(m) /\ i \notin Range(m.queue)
      BY <1>1, <2>1 DEF InOrder
    <3> DEFINE r == Release(m, i)
    <3>2. InOrder(r) /\ OthersPass(m, r, i)
          /\ r.active # i /\ i \notin Range(r.queue)
      BY <3>1, ReleaseEffect
    <3>3. r = g.lock
      BY <2>1
    <3> HIDE DEF r
    <3> QED BY <3>2, <3>3
  <2>3. OthersPass(h.lock, g.lock, i)
    BY <1>1, <2>2 DEF OthersStay, OthersPass
  <2> QED BY <1>1, <2>1, <2>2, <2>3 DEF Passes, Placed, Ready
<1> QED BY <1>3, <1>4 DEF Goes

\* So does a check.
LEMMA CheckPasses ==
    ASSUME NEW h, Ok(h), NEW i \in Masters, NEW g, Checks(h, g, i),
           InOrder(h.lock), Placed(h.lock, i, h.c)
    PROVE  Passes(h, g, i)
<1>1. DOMAIN h = HandlerFields /\ Sane(h.c) /\ Timed(h.c) /\ DOMAIN h.c = MasterFields
  BY DEF Ok, Sane
<1>2. CASE h.c.tstate # "TASK_READY" /\ Looks(h, g)
  <2>1. g.lock = h.lock /\ g.c.tstate = h.c.tstate
    BY <1>1, <1>2 DEF Looks, Same
  <2> QED BY <1>2, <2>1 DEF Passes, OthersPass, Placed, Ready
<1>3. CASE h.c.tstate = "TASK_READY" /\ Waits(h, g)
  <2>1. g.lock = h.lock /\ g.c.tstate = h.c.tstate /\ g.c.isSending
    BY <1>1, <1>3 DEF Waits, Same
  <2> QED BY <1>3, <2>1 DEF Passes, OthersPass, Placed, Ready
<1>4. CASE h.c.tstate = "TASK_READY" /\ Goes(h, g, i)
  BY <1>1, <1>4, GoesPasses DEF Timed
<1>5. ASSUME NEW k, Begins(h, k), Goes(k, g, i) PROVE Passes(h, g, i)
  <2>1. k.lock = h.lock
    BY <1>1, <1>5 DEF Begins, Same
  <2>2. Passes(k, g, i)
    BY <1>5, <2>1, GoesPasses
  <2> QED BY <2>1, <2>2 DEF Passes
<1> QED BY <1>2, <1>3, <1>4, <1>5 DEF Checks

----------------------------------------------------------------------------
(* The other handlers.                                                      *)

\* Fields that Sane says nothing of, and those of which it says the type.
FreeFields  == {"confirmQueue", "step", "startTimer", "startBy"}
TypedFields == {"isSending", "responseTimer", "solSeq", "posted", "scheduleTimer", "tstate"}

Typed(d) ==
    /\ d.isSending \in BOOLEAN /\ d.responseTimer \in BOOLEAN
    /\ d.solSeq \in Seqs /\ d.posted \in Nat /\ d.scheduleTimer \in Nat
    /\ d.tstate \in {"IDLE", "TASK_READY", "WAIT_FOR_RESPONSE"}

\* A master whose other fields change is still sane.
LEMMA SameSane ==
    ASSUME NEW c, Sane(c), NEW d, Same(c, d, FreeFields \cup TypedFields), Typed(d)
    PROVE  Sane(d)
<1>1. /\ DOMAIN d = MasterFields /\ d.tasks = c.tasks /\ d.active = c.active
      /\ d.isOnline = c.isOnline /\ d.bound = c.bound /\ d.expiration = c.expiration
  BY DEF Same, Sane, FreeFields, TypedFields
<1> QED BY <1>1 DEF Sane, Mine, Due, Typed

\* A confirm that is sent or queued.
LEMMA ConfirmEffect ==
    ASSUME NEW c, DOMAIN c = MasterFields, NEW uns, NEW seq
    PROVE  /\ Same(c, CheckConfirmTransmit(c), {"isSending", "confirmQueue"})
           /\ c.isSending \in BOOLEAN => CheckConfirmTransmit(c).isSending \in BOOLEAN
           /\ c.isSending => CheckConfirmTransmit(c).isSending
           /\ Same(c, QueueConfirm(c, uns, seq), {"isSending", "confirmQueue"})
           /\ c.isSending \in BOOLEAN => QueueConfirm(c, uns, seq).isSending \in BOOLEAN
           /\ c.isSending => QueueConfirm(c, uns, seq).isSending
<1>1. ASSUME NEW b, DOMAIN b = MasterFields
      PROVE  /\ Same(b, CheckConfirmTransmit(b), {"isSending", "confirmQueue"})
             /\ b.isSending \in BOOLEAN => CheckConfirmTransmit(b).isSending \in BOOLEAN
             /\ b.isSending => CheckConfirmTransmit(b).isSending
  <2>1. CASE b.isSending \/ b.confirmQueue = <<>>
    BY <2>1 DEF CheckConfirmTransmit, Same
  <2>2. CASE ~(b.isSending \/ b.confirmQueue = <<>>)
    <3>1. CheckConfirmTransmit(b) = [b EXCEPT !.isSending = TRUE, !.confirmQueue = Tail(@)]
      BY <2>2 DEF CheckConfirmTransmit
    <3> QED BY <1>1, <2>2, <3>1 DEF Same
  <2> QED BY <2>1, <2>2
<1> DEFINE b == [c EXCEPT !.confirmQueue = Append(@, [uns |-> uns, seq |-> seq])]
<1>2. Same(c, b, {"confirmQueue"}) /\ DOMAIN b = MasterFields
  BY DEF Same
<1>3. QueueConfirm(c, uns, seq) = CheckConfirmTransmit(b)
  BY DEF QueueConfirm
<1> HIDE DEF b
<1>4. /\ Same(b, CheckConfirmTransmit(b), {"isSending", "confirmQueue"})
      /\ b.isSending \in BOOLEAN => CheckConfirmTransmit(b).isSending \in BOOLEAN
      /\ b.isSending => CheckConfirmTransmit(b).isSending
  BY <1>1, <1>2
<1>5. b.isSending = c.isSending
  BY <1>2 DEF Same
<1> QED BY <1>1, <1>2, <1>3, <1>4, <1>5 DEF Same

\* The indications of a response may make startup tasks due.
LEMMA ProcessIINEffect ==
    ASSUME NEW c, Sane(c), NEW iin
    PROVE  LET d == ProcessIIN(c, iin)
           IN  /\ Sane(d) /\ Same(c, d, {"expiration"})
               /\ DemandedBy(iin) = {} => d.expiration = c.expiration
<1> DEFINE e == [t \in Task |-> IF t \in DemandedBy(iin) THEN 0 ELSE c.expiration[t]]
           d == ProcessIIN(c, iin)
<1>1. DOMAIN c = MasterFields /\ Expirations(c.expiration, Range(c.tasks))
  BY DEF Sane
<1>2. d = [c EXCEPT !.expiration = e]
  BY DEF ProcessIIN
<1>3. /\ e \in [Task -> Nat] /\ \A t \in Task : c.expiration[t] = 0 => e[t] = 0
      /\ DemandedBy(iin) = {} => e = c.expiration
  BY <1>1 DEF Expirations
<1>4. Expirations(e, Range(c.tasks))
  BY <1>1, <1>3 DEF Expirations
<1> HIDE DEF e
<1>5. Same(c, d, {"expiration"}) /\ d.expiration = e
  BY <1>1, <1>2 DEF Same
<1> HIDE DEF d
<1>6. Sane(d)
  BY <1>1, <1>4, <1>5 DEF Sane, Same, Mine, Due
<1> QED BY <1>3, <1>5, <1>6 DEF d

\* The next sequence number, without the remainder.
Plus(s, n) == IF s + n < SeqModulus THEN s + n ELSE s + n - SeqModulus

\* It is again a sequence number.
LEMMA IncrSeqIsNext ==
    ASSUME NEW s \in Seqs
    PROVE  IncrSeq(s) = Plus(s, 1) /\ IncrSeq(s) \in Seqs
<1>1. SeqModulus \in Nat /\ SeqModulus > 1 /\ s \in Nat /\ s < SeqModulus
  BY MasterAssumption DEF Seqs
<1>2. CASE s + 1 < SeqModulus
  <2>1. (s + 1) % SeqModulus = s + 1
    BY <1>1, <1>2
  <2> QED BY <1>1, <1>2, <2>1 DEF IncrSeq, Plus, Seqs
<1>3. CASE s + 1 = SeqModulus
  <2>1. SeqModulus % SeqModulus = 0
    BY <1>1
  <2> QED BY <1>1, <1>3, <2>1 DEF IncrSeq, Plus, Seqs
<1> QED BY <1>1, <1>2, <1>3

\* Whatever handler of master i goes from h to g, if the lock was in order:
\* it is so again.
LockFine(h, i) == InOrder(h.lock) /\ Placed(h.lock, i, h.c)

Outcome(h, g, i) ==
    /\ Ok(g) /\ Tells(h, g)
    /\ g.c.isOnline = h.c.isOnline
    /\ i \in Masters /\ LockFine(h, i) /\ Ready(h.lock, i, h.c) => Passes(h, g, i)

\* The response of the active task was taken, and its sequence number is used.
Takes(h, k) ==
    /\ DOMAIN k = HandlerFields /\ Sane(k.c)
    /\ Same(h, k, {"c", "called"})
    /\ Same(h.c, k.c, {"responseTimer", "solSeq", "step", "isSending", "confirmQueue", "expiration"})
    /\ k.c.solSeq = IncrSeq(h.c.solSeq)

Accepts(h, g, i, r) ==
    \/ ~r.fin /\ Takes(h, g) /\ g.c.responseTimer /\ g.called = h.called
    \/ \E k : /\ Takes(h, k) /\ ~k.c.responseTimer /\ k.called = h.called
              /\ Waits(k, g) \/ Goes(k, g, i)
    \/ \E k : /\ Takes(h, k) /\ ~k.c.responseTimer /\ k.called = Append(h.called, h.c.active)
              /\ Ends(k, g, i, h.lock) /\ g.called = k.called

\* AcceptResponse does one of these.
LEMMA AcceptEffect ==
    ASSUME NEW h, Ok(h), h.c.tstate = "WAIT_FOR_RESPONSE", NEW i, NEW r
    PROVE  Accepts(h, AcceptResponse(h, i, r), i, r)
<1> DEFINE t      == h.c.active
           result == ProcessTaskResponse(t, h.c.step, r)
           ended  == result \in {"OK_FINAL", "ERROR_BAD_RESPONSE"}
           c1     == [h.c EXCEPT !.responseTimer = FALSE, !.solSeq = IncrSeq(@), !.step = 1]
           k1     == [h EXCEPT !.c = c1]
           h1     == IF ended THEN Notify(k1, t, Completion(result)) ELSE k1
           h2     == IF r.con THEN [h1 EXCEPT !.c = QueueConfirm(h1.c, FALSE, r.seq)] ELSE h1
           g      == AcceptResponse(h, i, r)
<1>1. DOMAIN h = HandlerFields /\ Sane(h.c) /\ Timed(h.c) /\ DOMAIN h.c = MasterFields
  BY DEF Ok, Sane
<1>2. t \in Task \ Range(h.c.tasks) /\ t # None /\ h.c.isOnline
  BY <1>1 DEF Timed, Sane
<1>3. result = "OK_CONTINUE" => ~r.fin
  BY DEF ProcessTaskResponse, ProcessPoll, ProcessClearRestart, ProcessTimeSync, ProcessCommand,
         ValidateNullResponse
<1> HIDE DEF result
<1>4. /\ Same(h.c, c1, {"responseTimer", "solSeq", "step"})
      /\ c1.responseTimer = FALSE /\ c1.solSeq = IncrSeq(h.c.solSeq)
  BY <1>1 DEF Same
<1>5. IncrSeq(h.c.solSeq) \in Seqs
  BY <1>1, IncrSeqIsNext DEF Sane
<1> HIDE DEF c1
<1>6. Sane(c1) /\ DOMAIN c1 = MasterFields /\ c1.expiration \in [Task -> Nat] /\ c1.tasks = h.c.tasks
  <2>1. Same(h.c, c1, FreeFields \cup TypedFields)
    BY <1>4 DEF Same, FreeFields, TypedFields
  <2>2. Typed(c1)
    BY <1>1, <1>4, <1>5 DEF Typed, Same, Sane
  <2>3. Sane(c1)
    BY <1>1, <2>1, <2>2, SameSane
  <2> QED BY <1>1, <1>4, <2>3 DEF Sane, Same, Expirations
<1>7. /\ DOMAIN k1 = HandlerFields /\ k1.c = c1 /\ k1.lock = h.lock /\ k1.sent = h.sent
      /\ k1.called = h.called
  BY <1>1
<1> HIDE DEF k1
<1>8. /\ DOMAIN h1 = HandlerFields /\ Sane(h1.c) /\ Same(c1, h1.c, {"expiration"})
      /\ h1.lock = h.lock /\ h1.sent = h.sent
      /\ h1.called = IF ended THEN Append(h.called, t) ELSE h.called
  <2>1. CASE ended
    <3> DEFINE n == Notify(k1, t, Completion(result))
    <3>2. h1 = n
      BY <2>1
    <3>3. DOMAIN k1.c = MasterFields /\ k1.c.expiration \in [Task -> Nat] /\ t \in Task
      BY <1>2, <1>6, <1>7
    <3> HIDE DEF t
    <3>4. /\ Same(k1, n, {"c", "called"}) /\ Same(k1.c, n.c, {"expiration"})
          /\ n.called = Append(k1.called, t)
          /\ n.c.expiration \in [Task -> Nat]
          /\ \A u \in Task : u # t => n.c.expiration[u] = k1.c.expiration[u]
      BY <1>7, <3>3, NotifyEffect
    <3> HIDE DEF n
    <3>1. /\ Same(k1, n, {"c", "called"}) /\ Same(c1, n.c, {"expiration"})
          /\ n.called = Append(k1.called, t)
          /\ n.c.expiration \in [Task -> Nat]
          /\ \A u \in Task : u # t => n.c.expiration[u] = c1.expiration[u]
      BY <1>7, <3>4
    <3>5. t \in Task \ Range(c1.tasks)
      BY <1>2, <1>6 DEF t
    <3>6. Sane(n.c)
      BY <1>6, <3>1, <3>5, NotifySane, ZenonT(30)
    <3> HIDE DEF h1, ended
    <3> QED BY <1>7, <2>1, <3>1, <3>2, <3>6 DEF Same
  <2>2. CASE ~ended
    <3>1. h1 = k1
      BY <2>2
    <3> HIDE DEF h1, ended
    <3> QED BY <1>6, <1>7, <2>2, <3>1 DEF Same
  <2> QED BY <2>1, <2>2
<1> HIDE DEF h1
<1>9. /\ DOMAIN h2 = HandlerFields /\ Same(h1.c, h2.c, {"isSending", "confirmQueue"})
      /\ h2.c.isSending \in BOOLEAN
      /\ h2.lock = h.lock /\ h2.sent = h.sent /\ h2.called = h1.called
  <2> DEFINE q == QueueConfirm(h1.c, FALSE, r.seq)
  <2>1. /\ Same(h1.c, q, {"isSending", "confirmQueue"}) /\ q.isSending \in BOOLEAN
    BY <1>8, ConfirmEffect DEF Sane
  <2> HIDE DEF q
  <2>2. h2 = IF r.con THEN [h1 EXCEPT !.c = q] ELSE h1
    BY DEF q
  <2>3. h1.c.isSending \in BOOLEAN
    BY <1>8 DEF Sane
  <2> HIDE DEF h2
  <2> QED BY <1>8, <2>1, <2>2, <2>3 DEF Same
<1> HIDE DEF h2
<1>10. Sane(h2.c) /\ DOMAIN h2.c = MasterFields
  <2>1. Same(h1.c, h2.c, FreeFields \cup TypedFields)
    BY <1>9 DEF Same, FreeFields, TypedFields
  <2>2. Typed(h2.c)
    BY <1>8, <1>9 DEF Typed, Same, Sane
  <2>3. Sane(h2.c)
    BY <1>8, <2>1, <2>2, SameSane
  <2> QED BY <2>3 DEF Sane
<1>11. /\ Takes(h, h2) /\ ~h2.c.responseTimer
       /\ h2.c.active = t /\ h2.c.isOnline
  BY <1>1, <1>2, <1>4, <1>6, <1>8, <1>9, <1>10 DEF Takes, Same
<1>12. g = IF ended THEN CompleteActiveTask(h2, i)
           ELSE IF result = "OK_CONTINUE" THEN [h2 EXCEPT !.c.responseTimer = TRUE]
           ELSE StartTask_TaskReady(h2, i)
  BY DEF AcceptResponse, result, c1, k1, h1, h2
<1> HIDE DEF g
<1>13. CASE ended
  <2>1. Ends(h2, g, i, h2.lock) /\ g.called = h2.called
    BY <1>2, <1>9, <1>10, <1>11, <1>12, <1>13, CompleteEffect
  <2>2. h2.called = Append(h.called, h.c.active)
    BY <1>8, <1>9, <1>13
  <2> QED BY <1>9, <1>11, <2>1, <2>2 DEF Accepts, g
<1>14. CASE ~ended /\ result = "OK_CONTINUE"
  <2>1. g = [h2 EXCEPT !.c.responseTimer = TRUE]
    BY <1>12, <1>14
  <2> DEFINE d == [h2.c EXCEPT !.responseTimer = TRUE]
  <2>2. Same(h2.c, d, {"responseTimer"}) /\ d.responseTimer = TRUE
    BY <1>10 DEF Same
  <2>3. Sane(d)
    BY <1>10, <2>2 DEF Same, Sane, Mine, Due
  <2>4. g = [h2 EXCEPT !.c = d]
    BY <2>1
  <2> HIDE DEF d
  <2>5. DOMAIN g = HandlerFields /\ g.c = d /\ Same(h2, g, {"c"})
    BY <1>9, <2>4 DEF Same
  <2>6. g.called = h.called
    BY <1>8, <1>9, <1>14, <2>5 DEF Same
  <2>7. Takes(h, g) /\ g.c.responseTimer
    BY <1>1, <1>10, <1>11, <2>2, <2>3, <2>5 DEF Takes, Same
  <2> QED BY <1>3, <1>14, <2>6, <2>7 DEF Accepts, g
<1>15. CASE ~ended /\ result # "OK_CONTINUE"
  <2>1. g = StartTask_TaskReady(h2, i)
    BY <1>12, <1>15
  <2>2. Waits(h2, g) \/ Goes(h2, g, i)
    BY <1>2, <1>9, <1>10, <1>11, <2>1, ReadyEffect
  <2>3. h2.called = h.called
    BY <1>8, <1>9, <1>15
  <2> QED BY <1>11, <2>2, <2>3 DEF Accepts, g
<1> QED BY <1>13, <1>14, <1>15

\* The lock is as it was, and so is the place of the task.
LEMMA LockStays ==
    ASSUME NEW h, NEW g, NEW i, LockFine(h, i), Ready(h.lock, i, h.c), g.lock = h.lock,
           g.c.tstate = h.c.tstate, h.c.isSending => g.c.isSending,
           h.c.posted > 0 => g.c.posted > 0
    PROVE  Passes(h, g, i)
BY DEF LockFine, Passes, OthersPass, Placed, Ready

\* An active task that ends leaves the lock in order.
LEMMA EndsPasses ==
    ASSUME NEW h, NEW i \in Masters, LockFine(h, i), h.c.tstate = "WAIT_FOR_RESPONSE",
           NEW k, NEW g, Ends(k, g, i, h.lock)
    PROVE  Passes(h, g, i)
<1>1. g.lock = Release(h.lock, i) /\ g.c.tstate = "IDLE"
  BY DEF Ends
<1> DEFINE l == h.lock
<1>2. InOrder(l) /\ i \notin Range(l.queue)
  BY DEF LockFine, Placed
<1> HIDE DEF l
<1>3. LET m == Release(l, i)
      IN  /\ InOrder(m) /\ OthersPass(l, m, i)
          /\ m.active # i /\ i \notin Range(m.queue)
  BY <1>2, ReleaseEffect
<1>4. /\ InOrder(g.lock) /\ OthersPass(h.lock, g.lock, i)
      /\ g.lock.active # i /\ i \notin Range(g.lock.queue)
  BY <1>1, <1>3 DEF l
<1> QED BY <1>1, <1>4 DEF Passes, Placed, Ready

\* What follows for the master from a response that it accepts.
LEMMA AcceptOutcome ==
    ASSUME NEW h, Ok(h), h.c.tstate = "WAIT_FOR_RESPONSE", NEW i, NEW r, NEW g,
           Accepts(h, g, i, r)
    PROVE  /\ Outcome(h, g, i) /\ Seen(g.c) /\ g.c.solSeq = IncrSeq(h.c.solSeq)
           /\ ~h.sent /\ g.c.tstate = "WAIT_FOR_RESPONSE" => g.sent \/ ~r.fin
           /\ ~h.sent /\ g.sent => g.c.tstate = "WAIT_FOR_RESPONSE"
<1>1. /\ DOMAIN h = HandlerFields /\ Sane(h.c) /\ Timed(h.c) /\ DOMAIN h.c = MasterFields
      /\ h.c.active \in Task \ Range(h.c.tasks) /\ h.c.active # None /\ h.c.isOnline
  BY DEF Ok, Timed, Sane
<1>2. CASE ~r.fin /\ Takes(h, g) /\ g.c.responseTimer /\ g.called = h.called
  <2>1. /\ g.c.tstate = "WAIT_FOR_RESPONSE" /\ g.c.active = h.c.active /\ g.c.isOnline
        /\ g.c.tasks = h.c.tasks /\ g.lock = h.lock /\ g.sent = h.sent
        /\ Sane(g.c) /\ DOMAIN g = HandlerFields
    BY <1>1, <1>2 DEF Takes, Same
  <2>2. Ok(g)
    BY <1>1, <1>2, <2>1 DEF Ok, Timed
  <2>3. Tells(h, g)
    BY <1>2, <2>1 DEF Tells, Mine
  <2>4. LockFine(h, i) => Passes(h, g, i)
    BY <2>1, <1>1 DEF LockFine, Passes, OthersPass, Placed, Ready
  <2> QED BY <1>1, <1>2, <2>1, <2>2, <2>3, <2>4 DEF Outcome, Seen, Takes
<1>3. ASSUME NEW k, Takes(h, k), ~k.c.responseTimer, k.called = h.called,
             Waits(k, g) \/ Goes(k, g, i)
      PROVE  /\ Outcome(h, g, i) /\ Seen(g.c) /\ g.c.solSeq = IncrSeq(h.c.solSeq)
             /\ ~h.sent /\ g.c.tstate = "WAIT_FOR_RESPONSE" => g.sent \/ ~r.fin
             /\ ~h.sent /\ g.sent => g.c.tstate = "WAIT_FOR_RESPONSE"
  <2>1. /\ k.c.active = h.c.active /\ k.c.isOnline /\ k.c.tasks = h.c.tasks /\ k.lock = h.lock
        /\ k.sent = h.sent /\ Sane(k.c) /\ DOMAIN k = HandlerFields /\ DOMAIN k.c = MasterFields
        /\ k.c.posted \in Nat
    BY <1>1, <1>3 DEF Takes, Same, Sane
  <2>2. Ok(g)
    BY <1>1, <1>3, <2>1, GoesOk
  <2>3. Tells(k, g)
    BY <1>1, <1>3, <2>1, GoesTells
  <2>4. Mine(k.c) = Mine(h.c)
    BY <2>1 DEF Mine
  <2>5. Tells(h, g)
    BY <1>3, <2>3, <2>4 DEF Tells
  <2>6. /\ g.c.isOnline = k.c.isOnline /\ g.c.solSeq = k.c.solSeq
        /\ ~k.sent /\ g.c.tstate = "WAIT_FOR_RESPONSE" => g.sent
        /\ ~k.sent /\ g.sent => g.c.tstate = "WAIT_FOR_RESPONSE"
        /\ g.c.tstate # "IDLE" \/ g.c.posted > 0
    <3>1. CASE Waits(k, g)
      BY <2>1, <3>1 DEF Waits, Same
    <3>2. CASE Queues(k, g, i)
      BY <2>1, <3>2 DEF Queues, Same
    <3>3. CASE Sends(k, g, i)
      BY <2>1, <3>3 DEF Sends, Same
    <3>4. CASE Fails(k, g, i)
      <4>1. /\ Same(k.c, g.c, {"expiration", "tasks", "active", "tstate", "posted", "startTimer"})
            /\ g.c.tstate = "IDLE" /\ g.c.posted = k.c.posted + 1 /\ g.sent = k.sent
        BY <3>4 DEF Fails, Ends
      <4>2. g.c.isOnline = k.c.isOnline /\ g.c.solSeq = k.c.solSeq
        BY <2>1, <4>1 DEF Same
      <4> QED BY <2>1, <4>1, <4>2
    <3> QED BY <1>3, <3>1, <3>2, <3>3, <3>4 DEF Goes
  <2>7. i \in Masters /\ LockFine(h, i) => Passes(h, g, i)
    <3> SUFFICES ASSUME i \in Masters, LockFine(h, i) PROVE Passes(h, g, i)
      OBVIOUS
    <3>1. CASE Waits(k, g)
      BY <1>1, <2>1, <3>1 DEF Waits, Same, LockFine, Passes, OthersPass, Placed, Ready
    <3>2. CASE Goes(k, g, i)
      <4>1. InOrder(k.lock)
        BY <2>1 DEF LockFine
      <4>2. Passes(k, g, i)
        BY <3>2, <4>1, GoesPasses
      <4> QED BY <2>1, <4>2 DEF Passes
    <3> QED BY <1>3, <3>1, <3>2
  <2>8. k.c.solSeq = IncrSeq(h.c.solSeq)
    BY <1>3 DEF Takes
  <2> QED BY <1>1, <2>1, <2>2, <2>5, <2>6, <2>7, <2>8 DEF Outcome, Seen
<1>4. ASSUME NEW k, Takes(h, k), ~k.c.responseTimer, k.called = Append(h.called, h.c.active),
             Ends(k, g, i, h.lock), g.called = k.called
      PROVE  /\ Outcome(h, g, i) /\ Seen(g.c) /\ g.c.solSeq = IncrSeq(h.c.solSeq)
             /\ ~h.sent /\ g.c.tstate = "WAIT_FOR_RESPONSE" => g.sent \/ ~r.fin
             /\ ~h.sent /\ g.sent => g.c.tstate = "WAIT_FOR_RESPONSE"
  <2>1. /\ k.c.active = h.c.active /\ k.c.isOnline /\ k.c.tasks = h.c.tasks
        /\ k.sent = h.sent /\ DOMAIN k.c = MasterFields
        /\ k.c.posted \in Nat /\ k.c.solSeq = IncrSeq(h.c.solSeq)
    BY <1>1, <1>4 DEF Takes, Same, Sane
  <2>2. /\ g.c.active = None /\ g.c.tstate = "IDLE" /\ g.c.posted > 0 /\ Sane(g.c)
        /\ DOMAIN g = HandlerFields /\ g.c.isOnline /\ ~g.c.responseTimer
        /\ g.c.solSeq = k.c.solSeq /\ g.sent = k.sent
        /\ Range(g.c.tasks) = Range(h.c.tasks) \cup ({h.c.active} \ Adhoc)
    BY <1>4, <2>1, SMTT(30) DEF Ends, Same
  <2>3. Ok(g)
    BY <2>2 DEF Ok, Timed
  <2>4. Tells(h, g)
    <3>1. h.c.active \in Mine(h.c) /\ Mine(g.c) = Mine(h.c) \ ({h.c.active} \cap Adhoc)
      BY <1>1, <2>2 DEF Mine
    <3> QED BY <1>4, <3>1 DEF Tells
  <2>5. i \in Masters /\ LockFine(h, i) => Passes(h, g, i)
    BY <1>1, <1>4, EndsPasses
  <2> QED BY <1>1, <2>1, <2>2, <2>3, <2>4, <2>5 DEF Outcome, Seen
<1> QED BY <1>2, <1>3, <1>4 DEF Accepts

----------------------------------------------------------------------------
(* The callbacks.                                                           *)

\* How often the handler that ends with g called t.
Count(g, t) == Cardinality({k \in DOMAIN g.called : g.called[k] = t})

\* The handler had the tasks X: no single-shot task that it keeps, or did not
\* have, is called.
Keeps(X, g) ==
    \A t \in Adhoc :
        /\ t \in Mine(g.c) => t \in X /\ Count(g, t) = 0
        /\ t \notin X => Count(g, t) = 0

\* And one that it does not keep is called once.
Drops(X, g) == \A t \in Adhoc \cap X : t \notin Mine(g.c) => Count(g, t) = 1

\* No callback, or one.
LEMMA CountFacts ==
    ASSUME NEW g
    PROVE  /\ g.called = <<>> => \A u : Count(g, u) = 0
           /\ \A t : g.called = <<t>> => \A u : Count(g, u) = IF u = t THEN 1 ELSE 0
<1>1. ASSUME g.called = <<>>, NEW u PROVE Count(g, u) = 0
  <2>1. {k \in DOMAIN g.called : g.called[k] = u} = {}
    BY <1>1
  <2> QED BY <2>1, FS_EmptySet DEF Count
<1>2. ASSUME NEW t, g.called = <<t>>, NEW u PROVE Count(g, u) = IF u = t THEN 1 ELSE 0
  <2>1. DOMAIN g.called = {1} /\ g.called[1] = t
    BY <1>2
  <2>2. {k \in DOMAIN g.called : g.called[k] = u} = IF u = t THEN {1} ELSE {}
    BY <2>1
  <2> QED BY <2>2, FS_EmptySet, FS_Singleton DEF Count
<1> QED BY <1>1, <1>2

\* A handler that tells no task, or one, counts.
LEMMA TellsCounts ==
    ASSUME NEW h, h.called = <<>>, NEW g, Tells(h, g)
    PROVE  Keeps(Mine(h.c), g) /\ Drops(Mine(h.c), g)
<1>1. CASE g.called = h.called /\ Mine(g.c) = Mine(h.c)
  BY <1>1, CountFacts DEF Keeps, Drops
<1>2. ASSUME NEW t \in Mine(h.c), g.called = Append(h.called, t),
             Mine(g.c) = Mine(h.c) \ ({t} \cap Adhoc)
      PROVE  Keeps(Mine(h.c), g) /\ Drops(Mine(h.c), g)
  <2>1. g.called = <<t>>
    BY <1>2
  <2>2. \A u : Count(g, u) = IF u = t THEN 1 ELSE 0
    BY <2>1, CountFacts
  <2> QED BY <1>2, <2>2 DEF Keeps, Drops
<1> QED BY <1>1, <1>2 DEF Tells

----------------------------------------------------------------------------
(* The end of a handler.                                                    *)

\* d is c, at the end of a handler: what a task that is gone kept is gone, and
\* a check may have been posted.
Closes(c, d) ==
    /\ Same(c, d, {"startBy", "expiration", "step", "posted"})
    /\ d.posted \in Nat /\ d.posted >= c.posted
    /\ d.expiration \in [Task -> Nat]
    /\ \A t \in Task : d.expiration[t] \in {0, c.expiration[t]}
    /\ \A t \in Task : t \in Range(c.tasks) \/ t \notin Adhoc
                         => d.expiration[t] = c.expiration[t]

\* Settle and Wake close.
LEMMA SettleCloses ==
    ASSUME NEW c, Sane(c), NEW l, NEW j
    PROVE  Closes(c, Settle(c)) /\ Closes(c, Wake(l, j, Settle(c)))
<1> DEFINE b == [t \in Adhoc |-> IF t \in Held(c) THEN c.startBy[t] ELSE Never]
           e == [t \in Task |-> IF t \in Adhoc \ Held(c) THEN 0 ELSE c.expiration[t]]
           n == IF c.active = None THEN 0 ELSE c.step
           d == Settle(c)
<1>1. DOMAIN c = MasterFields /\ c.expiration \in [Task -> Nat] /\ c.posted \in Nat
  BY DEF Sane, Expirations
<1>2. d = [c EXCEPT !.startBy = b, !.expiration = e, !.step = n]
  BY DEF Settle
<1>3. /\ e \in [Task -> Nat]
      /\ \A t \in Task : e[t] \in {0, c.expiration[t]}
      /\ \A t \in Task : t \in Range(c.tasks) \/ t \notin Adhoc => e[t] = c.expiration[t]
  BY <1>1 DEF Held
<1> HIDE DEF b, e, n
<1>4. Same(c, d, {"startBy", "expiration", "step"}) /\ d.expiration = e
  BY <1>1, <1>2 DEF Same
<1> HIDE DEF d
<1>5. DOMAIN d = MasterFields /\ d.posted = c.posted
  BY <1>1, <1>4 DEF Same
<1>6. Same(d, Post(d), {"posted"}) /\ Post(d).posted = d.posted + 1
  BY <1>5 DEF Post, Same
<1>7. Closes(c, d)
  BY <1>1, <1>3, <1>4, <1>5 DEF Closes, Same
<1>8. Closes(c, Post(d))
  BY <1>1, <1>3, <1>4, <1>5, <1>6 DEF Closes, Same
<1> QED BY <1>7, <1>8 DEF Wake, d

\* A master that is sane, timed or seen is so when the handler has ended.
LEMMA ClosesGood ==
    ASSUME NEW c, Sane(c), NEW d, Closes(c, d)
    PROVE  Sane(d) /\ (Timed(c) => Timed(d)) /\ (Seen(c) => Seen(d))
<1>1. /\ DOMAIN d = MasterFields /\ d.tasks = c.tasks /\ d.active = c.active
      /\ d.isOnline = c.isOnline /\ d.bound = c.bound /\ d.responseTimer = c.responseTimer
      /\ d.isSending = c.isSending /\ d.tstate = c.tstate /\ d.solSeq = c.solSeq
      /\ d.scheduleTimer = c.scheduleTimer
  BY DEF Closes, Same, Sane
<1>2. /\ d.posted \in Nat /\ d.posted >= c.posted /\ c.posted \in Nat
      /\ d.expiration \in [Task -> Nat] /\ Range(c.tasks) \subseteq Task
      /\ \A t \in Range(c.tasks) : d.expiration[t] = c.expiration[t]
  BY DEF Closes, Sane, Expirations
<1>3. Expirations(d.expiration, Range(d.tasks))
  BY <1>1, <1>2 DEF Sane, Expirations
<1>4. Sane(d)
  BY <1>1, <1>2, <1>3 DEF Sane, Mine, Due
<1>5. ASSUME Seen(c) PROVE Seen(d)
  <2>1. \A t \in Range(c.tasks) :
           /\ TaskEnabled(d.expiration, t) <=> TaskEnabled(c.expiration, t)
           /\ First(d.expiration, Range(d.tasks), t) <=> First(c.expiration, Range(c.tasks), t)
    BY <1>1, <1>2 DEF First, LosesTo, TaskEnabled
  <2>2. c.posted > 0 => d.posted > 0
    BY <1>2
  <2> QED BY <1>1, <1>2, <1>5, <2>1, <2>2 DEF Seen
<1> QED BY <1>1, <1>4, <1>5 DEF Timed

\* After FinishFrom, master i has closed, and the others may have to look.
LEMMA FinishEffect ==
    ASSUME NEW before, NEW h, NEW i \in Masters, Sane(h.c), FinishFrom(before, h, i),
           \A j \in Masters : Sane(master[j])
    PROVE  /\ DOMAIN master' = Masters /\ Closes(h.c, master'[i])
           /\ \A j \in Masters \ {i} :
                 /\ Same(master[j], master'[j], {"posted"})
                 /\ master'[j].posted \in Nat /\ master'[j].posted >= master[j].posted
                 /\ j \in h.lock.woken => master'[j].posted > 0
           /\ lock' = [h.lock EXCEPT !.woken = {}]
           /\ DOMAIN calls' = Adhoc
           /\ \A t \in Adhoc : calls'[t] = before[t] + Count(h, t)
<1>1. master' = [j \in Masters |-> Wake(h.lock, j, IF j = i THEN Settle(h.c) ELSE master[j])]
  BY DEF FinishFrom
<1>2. Closes(h.c, master'[i])
  <2>1. master'[i] = Wake(h.lock, i, Settle(h.c))
    BY <1>1
  <2> QED BY <2>1, SettleCloses
<1>3. ASSUME NEW j \in Masters \ {i}
      PROVE  /\ Same(master[j], master'[j], {"posted"})
             /\ master'[j].posted \in Nat /\ master'[j].posted >= master[j].posted
             /\ j \in h.lock.woken => master'[j].posted > 0
  <2>1. master'[j] = Wake(h.lock, j, master[j])
    BY <1>1
  <2> DEFINE c == master[j]
  <2>2. DOMAIN c = MasterFields /\ c.posted \in Nat
    BY DEF Sane
  <2> HIDE DEF c
  <2>3. Same(c, Post(c), {"posted"}) /\ Post(c).posted = c.posted + 1
    BY <2>2 DEF Post, Same
  <2>4. Same(c, c, {"posted"})
    BY DEF Same
  <2> QED BY <2>1, <2>2, <2>3, <2>4 DEF Wake, c
<1> QED BY <1>1, <1>2, <1>3 DEF FinishFrom, Count

----------------------------------------------------------------------------
(* The invariant.                                                           *)

\* The tasks are accounted for, and the next one is looked for.
Scheduled ==
    /\ DOMAIN master = Masters /\ DOMAIN asked = Masters
    /\ \A i \in Masters : Sane(master[i]) /\ Timed(master[i])
    /\ \A i \in Masters \ unprompted : Seen(master[i])

\* A single-shot task is with one master, and was not called since.
Untold ==
    /\ DOMAIN calls = Adhoc
    /\ \A i, j \in Masters : i # j => Mine(master[i]) \cap Mine(master[j]) \cap Adhoc = {}
    /\ \A i \in Masters : \A t \in Adhoc \cap Mine(master[i]) : calls[t] = 0

\* The number of a fragment that is late is that of a request which timed out,
\* and the requests since have the numbers that follow.
Late(a, c) ==
    /\ DOMAIN a = {"fragment", "late", "again"}
    /\ a.late \in Seqs \cup {None} /\ a.again \in BOOLEAN
    /\ a.late # None /\ ~a.again =>
          c.tstate # "WAIT_FOR_RESPONSE" /\ c.solSeq = Plus(a.late, 1)
    /\ a.late # None /\ a.again /\ c.tstate = "WAIT_FOR_RESPONSE" =>
          a.fragment \in 0 .. SeqModulus - 2 /\ c.solSeq = Plus(a.late, a.fragment + 1)

Numbered == \A i \in Masters : Late(asked[i], master[i])

\* The lock is in order, and every master has its place in it.
Locked ==
    /\ InOrder(lock) /\ lock.woken = {}
    /\ \A i \in Masters :
          LockFine(Handler(i), i) /\ Ready(lock, i, master[i])

\* Only Numbered needs that no response has as many fragments as there are
\* sequence numbers.
IInv ==
    /\ Scheduled /\ Untold /\ Locked
    /\ MaxFragments < SeqModulus => Numbered

----------------------------------------------------------------------------
(* What the handler of one master does.                                     *)

\* Its tasks are X: those it had, and perhaps one that was given to it.
Given(i, X, before) ==
    \/ X = Mine(master[i]) /\ before = calls
    \/ \E t \in Adhoc :
          /\ \A j \in Masters : t \notin Mine(master[j])
          /\ X = Mine(master[i]) \cup {t}
          /\ before = [calls EXCEPT ![t] = 0]

\* The task that it starts comes first.
StartsFirst(i, g) ==
    LET c == master[i]
        t == g.c.active
    IN  c.isOnline /\ c.active = None /\ t # None =>
          \A u \in Range(g.c.tasks) : Priority(u) < Priority(t) => ~TaskEnabled(c.expiration, u)

\* The lock is in order, and the other masters keep their places or it is reset.
KeepsLock(i, g) ==
    /\ InOrder(g.lock)
    /\ g.lock.known = {} \/ OthersPass(lock, g.lock, i)
    /\ Placed(g.lock, i, g.c) /\ Ready(g.lock, i, g.c)

Serves(i, X, before, g) ==
    /\ Given(i, X, before) /\ FinishFrom(before, g, i)
    /\ Ok(g)
    /\ Keeps(X, g)
    /\ Drops(X, g) \/ (master[i].isOnline /\ ~g.c.isOnline)
    /\ unprompted \ {i} \subseteq unprompted'
    /\ i \notin unprompted' => Seen(g.c)
    /\ StartsFirst(i, g)
    /\ Locked => KeepsLock(i, g)
    /\ DOMAIN asked' = Masters /\ \A j \in Masters \ {i} : asked'[j] = asked[j]
    /\ MaxFragments < SeqModulus /\ Late(asked[i], master[i]) => Late(asked'[i], g.c)

\* A handler keeps the tasks accounted for.
LEMMA ServesScheduled ==
    ASSUME Scheduled, NEW i \in Masters, NEW X, NEW before, NEW g, Serves(i, X, before, g)
    PROVE  Scheduled'
<1>1. \A j \in Masters : Sane(master[j]) /\ Timed(master[j]) /\ DOMAIN master[j] = MasterFields
  BY DEF Scheduled, Sane
<1>2. Sane(g.c) /\ Timed(g.c)
  BY DEF Serves, Ok
<1>3. /\ DOMAIN master' = Masters /\ Closes(g.c, master'[i])
      /\ \A j \in Masters \ {i} :
            /\ Same(master[j], master'[j], {"posted"})
            /\ master'[j].posted \in Nat /\ master'[j].posted >= master[j].posted
  BY <1>1, <1>2, FinishEffect DEF Serves
<1>4. Sane(master'[i]) /\ Timed(master'[i]) /\ (i \notin unprompted' => Seen(master'[i]))
  BY <1>2, <1>3, ClosesGood DEF Serves
<1>5. ASSUME NEW j \in Masters \ {i}
      PROVE  /\ Sane(master'[j]) /\ Timed(master'[j])
             /\ Seen(master[j]) => Seen(master'[j])
  <2> DEFINE c == master[j]
             d == master'[j]
  <2>1. /\ Sane(c) /\ Timed(c) /\ DOMAIN c = MasterFields /\ Same(c, d, {"posted"})
        /\ d.posted \in Nat /\ d.posted >= c.posted /\ c.posted \in Nat
        /\ c.expiration \in [Task -> Nat]
    BY <1>1, <1>3 DEF Sane, Expirations
  <2> HIDE DEF c, d
  <2>2. Closes(c, d)
    BY <2>1 DEF Closes, Same
  <2> QED BY <2>1, <2>2, ClosesGood DEF c, d
<1>6. \A j \in Masters \ unprompted' : Seen(master'[j])
  BY <1>4, <1>5 DEF Scheduled, Serves
<1> QED BY <1>3, <1>4, <1>5, <1>6 DEF Scheduled, Serves

\* What the masters have, after a handler.
LEMMA ServesMine ==
    ASSUME Scheduled, NEW i \in Masters, NEW X, NEW before, NEW g, Serves(i, X, before, g)
    PROVE  /\ Mine(master'[i]) = Mine(g.c)
           /\ \A j \in Masters \ {i} : Mine(master'[j]) = Mine(master[j])
           /\ DOMAIN calls' = Adhoc
           /\ \A t \in Adhoc : calls'[t] = before[t] + Count(g, t)
<1>1. \A j \in Masters : Sane(master[j]) /\ DOMAIN master[j] = MasterFields
  BY DEF Scheduled, Sane
<1>2. Sane(g.c) /\ DOMAIN g.c = MasterFields
  BY DEF Serves, Ok, Sane
<1>3. /\ DOMAIN calls' = Adhoc /\ Closes(g.c, master'[i])
      /\ \A j \in Masters \ {i} : Same(master[j], master'[j], {"posted"})
      /\ \A t \in Adhoc : calls'[t] = before[t] + Count(g, t)
  BY <1>1, <1>2, FinishEffect DEF Serves
<1>4. master'[i].tasks = g.c.tasks /\ master'[i].active = g.c.active
  BY <1>2, <1>3 DEF Closes, Same
<1>5. \A j \in Masters \ {i} :
         master'[j].tasks = master[j].tasks /\ master'[j].active = master[j].active
  BY <1>1, <1>3 DEF Same
<1> QED BY <1>3, <1>4, <1>5 DEF Mine

\* It calls no single-shot task that a master has.
LEMMA ServesUntold ==
    ASSUME Scheduled, Untold, NEW i \in Masters, NEW X, NEW before, NEW g,
           Serves(i, X, before, g)
    PROVE  Untold'
<1>1. /\ Mine(master'[i]) = Mine(g.c)
      /\ \A j \in Masters \ {i} : Mine(master'[j]) = Mine(master[j])
      /\ DOMAIN calls' = Adhoc
      /\ \A t \in Adhoc : calls'[t] = before[t] + Count(g, t)
  BY ServesMine
<1>2. /\ Keeps(X, g) /\ Given(i, X, before)
      /\ DOMAIN calls = Adhoc
      /\ \A j, k \in Masters : j # k => Mine(master[j]) \cap Mine(master[k]) \cap Adhoc = {}
      /\ \A j \in Masters : \A t \in Adhoc \cap Mine(master[j]) : calls[t] = 0
  BY DEF Serves, Untold
<1>3. \A j \in Masters \ {i} : X \cap Mine(master[j]) \cap Adhoc = {}
  BY <1>2 DEF Given
<1>4. \A t \in Adhoc \cap X : before[t] = 0
  BY <1>2 DEF Given
<1>5. ASSUME NEW j \in Masters \ {i}, NEW t \in Adhoc \cap Mine(master[j])
      PROVE  before[t] = 0
  BY <1>2, <1>5 DEF Given
<1>6. \A t \in Adhoc \cap Mine(g.c) : t \in X /\ Count(g, t) = 0
  BY <1>2 DEF Keeps
<1>7. \A j \in Masters \ {i} : \A t \in Adhoc \cap Mine(master[j]) : Count(g, t) = 0
  BY <1>2, <1>3 DEF Keeps
<1>8. \A j, k \in Masters : j # k => Mine(master'[j]) \cap Mine(master'[k]) \cap Adhoc = {}
  <2> SUFFICES ASSUME NEW j \in Masters, NEW k \in Masters, j # k, NEW t \in Adhoc,
                      t \in Mine(master'[j]), t \in Mine(master'[k])
               PROVE  FALSE
    OBVIOUS
  <2>1. CASE j = i
    BY <1>1, <1>3, <1>6, <2>1
  <2>2. CASE k = i
    BY <1>1, <1>3, <1>6, <2>2
  <2>3. CASE j # i /\ k # i
    BY <1>1, <1>2, <2>3
  <2> QED BY <2>1, <2>2, <2>3
<1>9. ASSUME NEW j \in Masters, NEW t \in Adhoc \cap Mine(master'[j]) PROVE calls'[t] = 0
  <2>1. CASE j = i
    BY <1>1, <1>4, <1>6, <2>1
  <2>2. CASE j # i
    BY <1>1, <1>5, <1>7, <2>2
  <2> QED BY <2>1, <2>2
<1> QED BY <1>1, <1>8, <1>9 DEF Untold

\* The next sequence number but one, and one that is none of those before.
LEMMA PlusFacts ==
    ASSUME NEW s \in Seqs, NEW n \in 0 .. SeqModulus - 2
    PROVE  Plus(Plus(s, n + 1), 1) = Plus(s, n + 2) /\ Plus(s, n + 1) # s
<1>1. SeqModulus \in Nat /\ s \in Nat /\ s < SeqModulus /\ n \in Nat /\ n + 2 <= SeqModulus
  BY MasterAssumption DEF Seqs
<1> QED BY <1>1 DEF Plus

\* The numbers of the other masters stay, and so does that of master i.
LEMMA ServesNumbered ==
    ASSUME Scheduled, Numbered, MaxFragments < SeqModulus,
           NEW i \in Masters, NEW X, NEW before, NEW g, Serves(i, X, before, g)
    PROVE  Numbered'
<1>1. \A j \in Masters : Sane(master[j]) /\ DOMAIN master[j] = MasterFields
  BY DEF Scheduled, Sane
<1>2. Sane(g.c) /\ DOMAIN g.c = MasterFields
  BY DEF Serves, Ok, Sane
<1>3. /\ Closes(g.c, master'[i])
      /\ \A j \in Masters \ {i} : Same(master[j], master'[j], {"posted"})
  BY <1>1, <1>2, FinishEffect DEF Serves
<1>4. master'[i].tstate = g.c.tstate /\ master'[i].solSeq = g.c.solSeq
  BY <1>2, <1>3 DEF Closes, Same
<1>5. \A j \in Masters \ {i} :
         master'[j].tstate = master[j].tstate /\ master'[j].solSeq = master[j].solSeq
  BY <1>1, <1>3 DEF Same
<1>6. Late(asked'[i], master'[i])
  <2>1. Late(asked'[i], g.c)
    BY DEF Serves, Numbered
  <2> QED BY <1>4, <2>1 DEF Late
<1>7. ASSUME NEW j \in Masters \ {i} PROVE Late(asked'[j], master'[j])
  <2>1. asked'[j] = asked[j] /\ Late(asked[j], master[j])
    BY DEF Serves, Numbered
  <2> QED BY <1>5, <2>1 DEF Late
<1> QED BY <1>6, <1>7 DEF Numbered

\* The lock stays in order.
LEMMA ServesLocked ==
    ASSUME Scheduled, Locked,
           NEW i \in Masters, NEW X, NEW before, NEW g, Serves(i, X, before, g)
    PROVE  Locked'
<1>1. \A j \in Masters : Sane(master[j]) /\ DOMAIN master[j] = MasterFields
  BY DEF Scheduled, Sane
<1>2. Sane(g.c) /\ DOMAIN g.c = MasterFields /\ g.c.posted \in Nat
  BY DEF Serves, Ok, Sane
<1>3. /\ Closes(g.c, master'[i])
      /\ \A j \in Masters \ {i} :
            /\ Same(master[j], master'[j], {"posted"})
            /\ master'[j].posted \in Nat /\ master'[j].posted >= master[j].posted
            /\ j \in g.lock.woken => master'[j].posted > 0
      /\ lock' = [g.lock EXCEPT !.woken = {}]
  BY <1>1, <1>2, FinishEffect DEF Serves
<1>4. KeepsLock(i, g)
  BY DEF Serves
<1>5. /\ lock'.woken = {} /\ lock'.active = g.lock.active /\ lock'.queue = g.lock.queue
      /\ lock'.isOnline = g.lock.isOnline /\ lock'.known = g.lock.known
      /\ DOMAIN lock' = {"isOnline", "active", "queue", "woken", "known"}
  BY <1>3, <1>4 DEF KeepsLock, InOrder
<1>6. InOrder(lock')
  BY <1>4, <1>5 DEF KeepsLock, InOrder
<1>7. Placed(lock', i, master'[i]) /\ Ready(lock', i, master'[i])
  <2>1. /\ master'[i].tstate = g.c.tstate
        /\ master'[i].isSending = g.c.isSending
        /\ g.c.posted > 0 => master'[i].posted > 0
    BY <1>2, <1>3 DEF Closes, Same
  <2> QED BY <1>4, <1>5, <2>1 DEF KeepsLock, Placed, Ready
<1>8. ASSUME NEW j \in Masters \ {i}, g.lock.known # {}
      PROVE  Placed(lock', j, master'[j]) /\ Ready(lock', j, master'[j])
  <2>1. /\ master'[j].tstate = master[j].tstate /\ master'[j].isSending = master[j].isSending
        /\ master[j].posted > 0 => master'[j].posted > 0
        /\ j \in g.lock.woken => master'[j].posted > 0
    BY <1>1, <1>3 DEF Same, Sane
  <2>2. Placed(lock, j, master[j]) /\ Ready(lock, j, master[j])
    BY DEF Locked, LockFine, Handler
  <2>3. /\ j \in lock.known <=> j \in g.lock.known
        /\ g.lock.active = j => lock.active = j \/ j \in Range(lock.queue)
        /\ j \in Range(g.lock.queue) => j \in Range(lock.queue)
        /\ lock.active = j => g.lock.active = j
        /\ j \in Range(lock.queue) =>
              j \in Range(g.lock.queue) \/ (g.lock.active = j /\ j \in g.lock.woken)
    BY <1>4, <1>8 DEF KeepsLock, OthersPass
  <2>4. Placed(lock', j, master'[j])
    BY <1>5, <2>1, <2>2, <2>3 DEF Placed
  <2>5. Ready(lock', j, master'[j])
    BY <1>5, <2>1, <2>2, <2>3 DEF Ready
  <2> QED BY <2>4, <2>5
<1>9. ASSUME NEW j \in Masters, g.lock.known = {}
      PROVE  Placed(lock', j, master'[j]) /\ Ready(lock', j, master'[j])
  BY <1>5, <1>6, <1>9, MastersAssumption DEF InOrder, Placed, Ready
<1> QED BY <1>5, <1>6, <1>7, <1>8, <1>9 DEF Locked, LockFine, Handler

----------------------------------------------------------------------------
(* The handlers that look for a task.                                       *)

\* The state of master i before a handler.
LEMMA HandlerFacts ==
    ASSUME Scheduled, NEW i \in Masters
    PROVE  /\ Ok(Handler(i)) /\ DOMAIN master[i] = MasterFields /\ Sane(master[i]) /\ Timed(master[i])
           /\ Handler(i).c = master[i] /\ Handler(i).lock = lock
           /\ Handler(i).sent = FALSE /\ Handler(i).called = <<>>
           /\ DOMAIN Handler(i) = HandlerFields
BY DEF Scheduled, Handler, Ok, Sane

\* The outstation hears of a request, or of none.
LEMMA HearEffect ==
    ASSUME Scheduled, NEW i \in Masters, NEW g, NEW a, Hear(g, i, a)
    PROVE  /\ DOMAIN asked' = Masters /\ \A j \in Masters \ {i} : asked'[j] = asked[j]
           /\ ~g.sent => asked'[i] = a
           /\ g.sent => asked'[i] =
                 [fragment |-> 0, late |-> IF a.again THEN None ELSE a.late,
                  again |-> a.late # None /\ ~a.again]
BY DEF Hear, Scheduled

\* A master whose task is not waiting for a response sends a request, or not.
LEMMA LateAfterCheck ==
    ASSUME NEW a, NEW c, Late(a, c), NEW d, NEW b, d.solSeq = c.solSeq,
           \/ b = a /\ (d.tstate = "WAIT_FOR_RESPONSE" => c.tstate = "WAIT_FOR_RESPONSE")
           \/ b = [fragment |-> 0, late |-> IF a.again THEN None ELSE a.late,
                   again |-> a.late # None /\ ~a.again]
    PROVE  Late(b, d)
<1>1. 0 \in 0 .. SeqModulus - 2 /\ 0 + 1 = 1
  BY MasterAssumption
<1>2. CASE b = a /\ (d.tstate = "WAIT_FOR_RESPONSE" => c.tstate = "WAIT_FOR_RESPONSE")
  BY <1>2 DEF Late
<1>3. CASE b = [fragment |-> 0, late |-> IF a.again THEN None ELSE a.late,
                again |-> a.late # None /\ ~a.again]
  <2>1. /\ DOMAIN b = {"fragment", "late", "again"} /\ b.fragment = 0
        /\ b.late = IF a.again THEN None ELSE a.late
        /\ b.again = (a.late # None /\ ~a.again)
    BY <1>3
  <2> HIDE <1>3
  <2>2. b.late \in Seqs \cup {None} /\ b.again \in BOOLEAN
    BY <2>1 DEF Late
  <2>3. b.late # None => b.again /\ d.solSeq = Plus(b.late, b.fragment + 1)
    <3> SUFFICES ASSUME b.late # None PROVE b.again /\ d.solSeq = Plus(b.late, b.fragment + 1)
      OBVIOUS
    <3>1. ~a.again /\ b.late = a.late /\ a.late # None
      BY <2>1
    <3>2. c.solSeq = Plus(a.late, 1)
      BY <3>1 DEF Late
    <3> QED BY <1>1, <2>1, <3>1, <3>2
  <2> QED BY <1>1, <2>1, <2>2, <2>3 DEF Late
<1> QED BY <1>2, <1>3

\* What a handler that looks for a task did before it looks.
LookFields == {"isSending", "confirmQueue", "scheduleTimer", "posted", "tasks", "expiration",
               "startBy", "startTimer"}

\* The handler serves the master.
LEMMA LookServes ==
    ASSUME Scheduled, NEW i \in Masters, NEW before, NEW h, Ok(h), h.lock = lock,
           h.sent = FALSE, h.called = <<>>,
           Same(master[i], h.c, LookFields),
           \A u \in Task : h.c.expiration[u] \in {0, master[i].expiration[u]},
           Given(i, Mine(h.c), before),
           NEW g, g = CheckForTask(h, i), FinishFrom(before, g, i), Hear(g, i, asked[i]),
           unprompted' = unprompted \ {i}
    PROVE  Serves(i, Mine(h.c), before, g)
<1> DEFINE c == master[i]
<1>1. DOMAIN c = MasterFields /\ Sane(c) /\ Timed(c)
  BY HandlerFacts
<1>2. /\ h.c.isOnline = c.isOnline /\ h.c.tstate = c.tstate /\ h.c.active = c.active
      /\ h.c.solSeq = c.solSeq /\ DOMAIN h.c = MasterFields
  BY <1>1 DEF Same, LookFields
<1>3. Checks(h, g, i)
  BY CheckEffect
<1>4. Ok(g) /\ Same(h.c, g.c, CheckFields) /\ Seen(g.c) /\ Tells(h, g)
  BY <1>3, CheckOk, CheckSeen, CheckTells
<1>5. g.c.isOnline = c.isOnline /\ g.c.solSeq = c.solSeq
  BY <1>2, <1>4 DEF Same, CheckFields
<1>6. Keeps(Mine(h.c), g) /\ Drops(Mine(h.c), g)
  BY <1>4, TellsCounts
<1>7. StartsFirst(i, g)
  <2> SUFFICES ASSUME c.isOnline, c.active = None, g.c.active # None,
                      NEW u \in Range(g.c.tasks), Priority(u) < Priority(g.c.active)
               PROVE  ~TaskEnabled(c.expiration, u)
    BY DEF StartsFirst
  <2>1. LosesTo(h.c.expiration, u, g.c.active)
    BY <1>2, <1>3, CheckStartsFirst
  <2>2. u \in Task /\ g.c.active \in Task
    BY <1>4 DEF Ok, Sane, Expirations
  <2>3. Priority(u) \in Nat /\ Priority(g.c.active) \in Nat
    BY <2>2, TaskFacts
  <2>4. ~TaskEnabled(h.c.expiration, u)
    BY <2>1, <2>3 DEF LosesTo
  <2>5. Infinite \in Nat /\ Infinite > 0
    BY TasksAssumption DEF Infinite
  <2> QED BY <2>2, <2>4, <2>5 DEF TaskEnabled
<1>8. ASSUME Locked PROVE KeepsLock(i, g)
  <2>1. InOrder(h.lock) /\ Placed(h.lock, i, h.c)
    BY ZenonT(30), <1>2, <1>8, HandlerFacts DEF Locked, LockFine, Placed
  <2>2. Passes(h, g, i)
    BY <1>3, <2>1, CheckPasses
  <2> QED BY <1>2, <1>5, <2>1, <2>2 DEF Passes, KeepsLock
<1>9. DOMAIN asked' = Masters /\ \A j \in Masters \ {i} : asked'[j] = asked[j]
  BY HearEffect
<1>10. ASSUME Late(asked[i], c) PROVE Late(asked'[i], g.c)
  <2>1. /\ g.sent => h.c.tstate # "WAIT_FOR_RESPONSE" /\ g.c.tstate = "WAIT_FOR_RESPONSE"
        /\ ~g.sent /\ g.c.tstate = "WAIT_FOR_RESPONSE" => h.c.tstate = "WAIT_FOR_RESPONSE"
    BY <1>3, CheckSends
  <2> DEFINE a == asked[i]
             b == asked'[i]
  <2>2. /\ ~g.sent => b = a
        /\ g.sent => b = [fragment |-> 0, late |-> IF a.again THEN None ELSE a.late,
                          again |-> a.late # None /\ ~a.again]
    BY HearEffect
  <2>3. Late(a, c)
    BY <1>10
  <2> HIDE DEF a, b, c
  <2>4. Late(b, g.c)
    BY <1>2, <1>5, <2>1, <2>2, <2>3, LateAfterCheck
  <2> QED BY <2>4 DEF b
<1>11. unprompted \ {i} \subseteq unprompted'
  OBVIOUS
<1> HIDE DEF c
<1> QED BY <1>4, <1>6, <1>7, <1>8, <1>9, <1>10, <1>11 DEF Serves, c

\* Master i takes a step that leaves the others alone.
Served(i) == \E X, before, g : Serves(i, X, before, g)

\* The result of a transmission.
LEMMA OnSendResultServes ==
    ASSUME Scheduled, NEW i \in Masters, OnSendResult(i) PROVE Served(i)
<1> DEFINE c == master[i]
           b == [c EXCEPT !.isSending = FALSE]
           d == CheckConfirmTransmit(b)
           h == [Handler(i) EXCEPT !.c = d]
           g == CheckForTask(h, i)
<1>1. DOMAIN c = MasterFields /\ Sane(c) /\ Timed(c)
  BY HandlerFacts
<1>2. Same(c, b, {"isSending"}) /\ b.isSending = FALSE /\ DOMAIN b = MasterFields
  BY <1>1 DEF Same
<1> HIDE DEF b
<1>3. Same(b, d, {"isSending", "confirmQueue"}) /\ d.isSending \in BOOLEAN
  BY <1>2, ConfirmEffect
<1> HIDE DEF d
<1>4. Same(c, d, {"isSending", "confirmQueue"})
  BY <1>2, <1>3 DEF Same
<1>5. Sane(d) /\ Timed(d)
  <2>1. Same(c, d, FreeFields \cup TypedFields) /\ Typed(d)
    BY <1>1, <1>3, <1>4 DEF Same, FreeFields, TypedFields, Typed, Sane
  <2> QED BY <1>1, <1>4, <2>1, SameSane DEF Timed, Same
<1>6. /\ DOMAIN h = HandlerFields /\ h.c = d /\ h.lock = lock /\ h.sent = FALSE
      /\ h.called = <<>>
  BY HandlerFacts
<1>7. FinishFrom(calls, g, i) /\ Hear(g, i, asked[i]) /\ unprompted' = unprompted \ {i}
  <2>1. [Handler(i) EXCEPT !.c = CheckConfirmTransmit([@ EXCEPT !.isSending = FALSE])] = h
    BY HandlerFacts DEF b, d
  <2> HIDE DEF h
  <2> QED BY <2>1 DEF OnSendResult, Finish
<1> HIDE DEF h
<1>8. /\ Ok(h) /\ Same(c, h.c, LookFields)
      /\ \A u \in Task : h.c.expiration[u] \in {0, c.expiration[u]}
      /\ Mine(h.c) = Mine(c)
  BY <1>1, <1>4, <1>5, <1>6 DEF Ok, Same, LookFields, Mine
<1>9. Given(i, Mine(h.c), calls)
  BY <1>8 DEF Given
<1>10. Serves(i, Mine(h.c), calls, g)
  <2> HIDE DEF c
  <2> QED BY <1>6, <1>7, <1>8, <1>9, LookServes DEF c
<1> QED BY <1>10 DEF Served

\* A posted check.
LEMMA RunPostedServes ==
    ASSUME Scheduled, NEW i \in Masters, RunPosted(i) PROVE Served(i)
<1> DEFINE c == master[i]
           d == [c EXCEPT !.posted = @ - 1]
           h == [Handler(i) EXCEPT !.c = d]
           g == CheckForTask(h, i)
<1>1. DOMAIN c = MasterFields /\ Sane(c) /\ Timed(c) /\ c.posted \in Nat /\ c.posted > 0
  BY HandlerFacts DEF RunPosted, Sane
<1>2. Same(c, d, {"posted"}) /\ d.posted = c.posted - 1
  BY <1>1 DEF Same
<1>3. FinishFrom(calls, g, i) /\ Hear(g, i, asked[i]) /\ unprompted' = unprompted \ {i}
  <2>1. [Handler(i) EXCEPT !.c.posted = @ - 1] = h
    BY HandlerFacts
  <2> HIDE DEF h
  <2> QED BY <2>1 DEF RunPosted, Finish
<1> HIDE DEF d
<1>5. Sane(d) /\ Timed(d)
  <2>1. Same(c, d, FreeFields \cup TypedFields) /\ Typed(d)
    BY <1>1, <1>2 DEF Same, FreeFields, TypedFields, Typed, Sane
  <2> QED BY <1>1, <1>2, <2>1, SameSane DEF Timed, Same
<1>6. /\ DOMAIN h = HandlerFields /\ h.c = d /\ h.lock = lock /\ h.sent = FALSE
      /\ h.called = <<>>
  BY HandlerFacts
<1> HIDE DEF h
<1>8. /\ Ok(h) /\ Same(c, h.c, LookFields)
      /\ \A u \in Task : h.c.expiration[u] \in {0, c.expiration[u]}
      /\ Mine(h.c) = Mine(c)
  BY <1>1, <1>2, <1>5, <1>6 DEF Ok, Same, LookFields, Mine
<1>9. Given(i, Mine(h.c), calls)
  BY <1>8 DEF Given
<1>10. Serves(i, Mine(h.c), calls, g)
  <2> HIDE DEF c
  <2> QED BY <1>3, <1>6, <1>8, <1>9, LookServes DEF c
<1> QED BY <1>10 DEF Served

\* The schedule timer runs out.
LEMMA ScheduleTimerExpiresServes ==
    ASSUME Scheduled, NEW i \in Masters, ScheduleTimerExpires(i) PROVE Served(i)
<1> DEFINE c == master[i]
           d == [c EXCEPT !.scheduleTimer = Infinite]
           h == [Handler(i) EXCEPT !.c = d]
           g == CheckForTask(h, i)
<1>1. DOMAIN c = MasterFields /\ Sane(c) /\ Timed(c)
  BY HandlerFacts
<1>2. Same(c, d, {"scheduleTimer"}) /\ d.scheduleTimer = Infinite /\ Infinite \in Nat
  BY <1>1, TaskClasses DEF Same
<1>3. FinishFrom(calls, g, i) /\ Hear(g, i, asked[i]) /\ unprompted' = unprompted \ {i}
  <2>1. [Handler(i) EXCEPT !.c.scheduleTimer = Infinite] = h
    BY HandlerFacts
  <2> HIDE DEF h
  <2> QED BY <2>1 DEF ScheduleTimerExpires, Finish
<1> HIDE DEF d
<1>5. Sane(d) /\ Timed(d)
  <2>1. Same(c, d, FreeFields \cup TypedFields) /\ Typed(d)
    BY <1>1, <1>2 DEF Same, FreeFields, TypedFields, Typed, Sane
  <2> QED BY <1>1, <1>2, <2>1, SameSane DEF Timed, Same
<1>6. /\ DOMAIN h = HandlerFields /\ h.c = d /\ h.lock = lock /\ h.sent = FALSE
      /\ h.called = <<>>
  BY HandlerFacts
<1> HIDE DEF h
<1>8. /\ Ok(h) /\ Same(c, h.c, LookFields)
      /\ \A u \in Task : h.c.expiration[u] \in {0, c.expiration[u]}
      /\ Mine(h.c) = Mine(c)
  BY <1>1, <1>2, <1>5, <1>6 DEF Ok, Same, LookFields, Mine
<1>9. Given(i, Mine(h.c), calls)
  BY <1>8 DEF Given
<1>10. Serves(i, Mine(h.c), calls, g)
  <2> HIDE DEF c
  <2> QED BY <1>3, <1>6, <1>8, <1>9, LookServes DEF c
<1> QED BY <1>10 DEF Served

\* A task that is given to a master which is up, and to one that is not.
LEMMA SubmitTaskServes ==
    ASSUME Scheduled, Untold, NEW i \in Masters, NEW t \in Adhoc, SubmitTask(i, t)
    PROVE  Served(i)
<1> DEFINE c == master[i]
           b == [c EXCEPT !.startBy[t] = StartTimeout, !.expiration[t] = 0]
           k == [Handler(i) EXCEPT !.c = b]
           before == [calls EXCEPT ![t] = 0]
           g == ScheduleAdhocTask(Handler(i), i, t)
<1>1. DOMAIN c = MasterFields /\ Sane(c) /\ Timed(c) /\ t \in Task /\ t # None
  BY HandlerFacts, TaskKinds
<1>2. /\ g = IF c.isOnline THEN CheckForTask([k EXCEPT !.c = Schedule(b, t)], i)
             ELSE Notify(k, t, "FAILURE_NO_COMMS")
  <2> DEFINE k0 == [Handler(i) EXCEPT !.c.startBy[t] = StartTimeout, !.c.expiration[t] = 0]
  <2>1. k0 = k
    BY HandlerFacts
  <2>2. k.c = b /\ Handler(i).c = c
    BY HandlerFacts
  <2>3. g = IF Handler(i).c.isOnline THEN CheckForTask([k0 EXCEPT !.c = Schedule(k0.c, t)], i)
            ELSE Notify(k0, t, "FAILURE_NO_COMMS")
    BY DEF ScheduleAdhocTask
  <2> HIDE DEF k, b, k0, g, c
  <2> QED BY <2>1, <2>2, <2>3
<1>3. FinishFrom(before, g, i) /\ Hear(g, i, asked[i]) /\ unprompted' = unprompted \ {i}
  <2> HIDE DEF g
  <2> QED BY DEF SubmitTask, g
<1> HIDE DEF g
<1>4. \A j \in Masters : t \notin Mine(master[j])
  BY DEF SubmitTask, Held, Mine
<1> DEFINE e == [c.expiration EXCEPT ![t] = 0]
<1>5. /\ e \in [Task -> Nat] /\ c.expiration \in [Task -> Nat]
      /\ e[t] = 0 /\ \A u \in Task : u # t => e[u] = c.expiration[u]
  BY <1>1 DEF Sane, Expirations
<1>6. Same(c, b, {"startBy", "expiration"}) /\ b.expiration = e /\ DOMAIN b = MasterFields
  BY <1>1 DEF Same
<1> HIDE DEF e, b
<1>7. /\ DOMAIN k = HandlerFields /\ k.c = b /\ k.lock = lock /\ k.sent = FALSE
      /\ k.called = <<>>
  BY HandlerFacts
<1> HIDE DEF k, before
<1>8. CASE c.isOnline
  <2> DEFINE d == Schedule(b, t)
             h == [k EXCEPT !.c = d]
  <2>1. Same(b, d, {"tasks", "startTimer"}) /\ d.tasks = Append(b.tasks, t)
    BY <1>6, ScheduleEffect
  <2> HIDE DEF d
  <2>2. /\ Same(c, d, {"startBy", "expiration", "tasks", "startTimer"})
        /\ d.tasks = Append(c.tasks, t) /\ d.expiration = e
    BY <1>1, <1>6, <2>1 DEF Same
  <2>3. /\ DOMAIN d = MasterFields /\ d.active = c.active
        /\ d.isOnline = c.isOnline /\ d.bound = c.bound /\ d.responseTimer = c.responseTimer
        /\ d.isSending = c.isSending /\ d.tstate = c.tstate /\ d.solSeq = c.solSeq
        /\ d.scheduleTimer = c.scheduleTimer /\ d.posted = c.posted
    BY <1>1, <2>2 DEF Same
  <2>4. t \notin Range(c.tasks) /\ t # c.active
    BY <1>1, <1>4 DEF Mine
  <2>5. Lists(d.tasks, Range(c.tasks) \cup {t})
    BY <1>1, <2>2, <2>4, ListsAppend DEF Sane
  <2>6. Range(d.tasks) = Range(c.tasks) \cup {t}
    BY <2>5 DEF Lists
  <2>7. Expirations(d.expiration, Range(d.tasks))
    BY <1>1, <1>5, <2>2, <2>6 DEF Sane, Expirations
  <2>8. Mine(d) = Mine(c) \cup {t}
    BY <2>3, <2>6 DEF Mine
  <2>9. Mine(d) \ Adhoc = Due(d)
    BY <1>1, <2>3, <2>8 DEF Sane, Due
  <2>10. Sane(d) /\ Timed(d)
    BY <1>1, <1>8, <2>3, <2>4, <2>5, <2>6, <2>7, <2>9 DEF Sane, Timed
  <2>11. /\ DOMAIN h = HandlerFields /\ h.c = d /\ h.lock = lock /\ h.sent = FALSE
         /\ h.called = <<>>
    BY <1>7
  <2>12. g = CheckForTask(h, i)
    BY <1>2, <1>8 DEF d
  <2> HIDE DEF h
  <2>13. /\ Ok(h) /\ Same(c, h.c, LookFields)
         /\ \A u \in Task : h.c.expiration[u] \in {0, c.expiration[u]}
    <3>1. Ok(h) /\ Same(c, h.c, LookFields)
      BY <2>2, <2>10, <2>11 DEF Ok, Same, LookFields
    <3>2. \A u \in Task : e[u] \in {0, c.expiration[u]}
      BY <1>5
    <3> QED BY <2>2, <2>11, <3>1, <3>2
  <2>14. Given(i, Mine(h.c), before)
    BY <1>4, <2>8, <2>11 DEF Given, before
  <2>15. Serves(i, Mine(h.c), before, g)
    <3> HIDE DEF c
    <3> QED BY <1>3, <2>11, <2>12, <2>13, <2>14, LookServes DEF c
  <2> QED BY <2>15 DEF Served
<1>9. CASE ~c.isOnline
  <2>1. g = Notify(k, t, "FAILURE_NO_COMMS")
    BY <1>2, <1>9
  <2>2. /\ Same(k, g, {"c", "called"}) /\ Same(k.c, g.c, {"expiration"})
        /\ g.called = Append(k.called, t)
        /\ g.c.expiration \in [Task -> Nat]
    <3>1. DOMAIN k.c = MasterFields /\ k.c.expiration \in [Task -> Nat]
      BY <1>5, <1>6, <1>7
    <3> QED BY <1>1, <1>7, <2>1, <3>1, NotifyEffect
  <2>3. /\ DOMAIN g = HandlerFields /\ g.lock = lock /\ g.sent = FALSE /\ g.called = <<t>>
        /\ Same(c, g.c, {"startBy", "expiration"})
    BY <1>1, <1>6, <1>7, <2>2 DEF Same
  <2>4. /\ DOMAIN g.c = MasterFields /\ g.c.active = c.active /\ g.c.tasks = c.tasks
        /\ g.c.isOnline = c.isOnline /\ g.c.bound = c.bound /\ g.c.responseTimer = c.responseTimer
        /\ g.c.isSending = c.isSending /\ g.c.tstate = c.tstate /\ g.c.solSeq = c.solSeq
        /\ g.c.scheduleTimer = c.scheduleTimer /\ g.c.posted = c.posted
    BY <1>1, <2>3 DEF Same
  <2>5. Mine(c) = {}
    BY <1>1, <1>9 DEF Sane
  <2>6. Range(c.tasks) = {} /\ c.active = None
    BY <1>1, <2>5 DEF Mine
  <2>7. Expirations(g.c.expiration, Range(g.c.tasks))
    BY <2>2, <2>4, <2>6 DEF Expirations
  <2>8. Mine(g.c) = {} /\ Due(g.c) = Due(c)
    BY <2>4, <2>5 DEF Mine, Due
  <2>9. Sane(g.c) /\ Timed(g.c)
    BY <1>1, <2>4, <2>5, <2>7, <2>8 DEF Sane, Timed
  <2>10. Ok(g) /\ Seen(g.c)
    BY <1>9, <2>3, <2>4, <2>9 DEF Ok, Seen
  <2> DEFINE X == Mine(c) \cup {t}
  <2>11. Given(i, X, before)
    BY <1>4 DEF Given, before
  <2>12. Keeps(X, g) /\ Drops(X, g)
    <3>1. \A u : Count(g, u) = IF u = t THEN 1 ELSE 0
      BY <2>3, CountFacts
    <3> QED BY <2>5, <2>8, <3>1 DEF Keeps, Drops
  <2>13. StartsFirst(i, g)
    BY <1>9 DEF StartsFirst
  <2>14. ASSUME Locked PROVE KeepsLock(i, g)
    <3>1. LockFine(Handler(i), i) /\ Ready(lock, i, c)
      BY <2>14 DEF Locked
    <3> QED BY <2>3, <2>4, <3>1, HandlerFacts, ZenonT(30)
            DEF KeepsLock, LockFine, OthersPass, Placed, Ready
  <2>15. DOMAIN asked' = Masters /\ asked'[i] = asked[i] /\ \A j \in Masters \ {i} : asked'[j] = asked[j]
    <3> HIDE DEF c, b, k, before, g, X
    <3>1. Hear(g, i, asked[i]) /\ g.sent = FALSE
      BY <1>3, <2>3
    <3>2. /\ DOMAIN asked' = Masters /\ \A j \in Masters \ {i} : asked'[j] = asked[j]
          /\ ~g.sent => asked'[i] = asked[i]
      BY <3>1, HearEffect
    <3> QED BY <3>1, <3>2
  <2>16. Late(asked[i], c) => Late(asked'[i], g.c)
    BY <2>4, <2>15 DEF Late
  <2> HIDE DEF c, X
  <2>17. Serves(i, X, before, g)
    BY <1>3, <2>10, <2>11, <2>12, <2>13, <2>14, <2>15, <2>16 DEF Serves, c
  <2> QED BY <2>17 DEF Served
<1> QED BY <1>8, <1>9

----------------------------------------------------------------------------
(* The handlers that leave the active task and the lock alone.              *)

\* Such a handler serves the master.
LEMMA QuietServes ==
    ASSUME Scheduled, NEW i \in Masters, NEW g, Ok(g), FinishFrom(calls, g, i), g.lock = lock,
           g.c.isOnline = master[i].isOnline, g.c.tstate = master[i].tstate,
           g.c.solSeq = master[i].solSeq, g.c.active = master[i].active,
           master[i].isSending => g.c.isSending, g.c.posted >= master[i].posted,
           asked' = asked, unprompted \ {i} \subseteq unprompted', i \notin unprompted' => Seen(g.c),
           Keeps(Mine(master[i]), g), Drops(Mine(master[i]), g)
    PROVE  Served(i)
<1> DEFINE c == master[i]
           X == Mine(c)
<1>1. Given(i, X, calls)
  BY DEF Given
<1>2. StartsFirst(i, g)
  BY DEF StartsFirst
<1>3. ASSUME Locked PROVE KeepsLock(i, g)
  <2>1. LockFine(Handler(i), i) /\ Ready(lock, i, c) /\ InOrder(lock)
    BY <1>3 DEF Locked
  <2>2. c.posted > 0 => g.c.posted > 0
    <3>1. c.posted \in Nat
      BY HandlerFacts DEF Sane
    <3>2. g.c.posted \in Nat
      BY DEF Ok, Sane
    <3> QED BY <3>1, <3>2
  <2> QED BY <2>1, <2>2, HandlerFacts DEF KeepsLock, LockFine, OthersPass, Placed, Ready
<1>4. Late(asked[i], c) => Late(asked'[i], g.c)
  BY DEF Late
<1>5. DOMAIN asked' = Masters
  BY DEF Scheduled
<1>6. Keeps(X, g) /\ Drops(X, g)
  OBVIOUS
<1> HIDE DEF X
<1>7. Serves(i, X, calls, g)
  BY <1>1, <1>2, <1>3, <1>4, <1>5, <1>6 DEF Serves
<1> QED BY <1>7 DEF Served

\* A handler that calls no task and keeps all single-shot ones counts.
LEMMA NoneCounts ==
    ASSUME NEW X, NEW g, g.called = <<>>, Mine(g.c) \cap Adhoc = X \cap Adhoc
    PROVE  Keeps(X, g) /\ Drops(X, g)
BY CountFacts DEF Keeps, Drops

\* Two lists of different tasks, one after the other.
LEMMA ListsJoin ==
    ASSUME NEW s, NEW X, Lists(s, X), NEW r, NEW Y, Lists(r, Y), X \cap Y = {}
    PROVE  Lists(s \o r, X \cup Y)
<1> DEFINE a == s \o r
           n == Len(s)
           m == Len(r)
<1>1. /\ s \in Seq(X \cup Y) /\ r \in Seq(X \cup Y) /\ n \in Nat /\ m \in Nat
      /\ DOMAIN s = 1 .. n /\ DOMAIN r = 1 .. m
      /\ \A k \in 1 .. n : s[k] \in X
      /\ \A k \in 1 .. m : r[k] \in Y
  BY DEF Lists
<1>2. Len(a) = n + m /\ a \in Seq(X \cup Y)
  BY <1>1, JoinLength
<1>3. DOMAIN a = 1 .. n + m
  BY <1>1, <1>2
<1>4. \A k \in 1 .. n + m : a[k] = IF k <= n THEN s[k] ELSE r[k - n]
  BY <1>1
<1> HIDE DEF a, n, m
<1>5. \A k \in 1 .. n : k \in 1 .. n + m /\ a[k] = s[k]
  BY <1>1, <1>4
<1>6. \A k \in 1 .. m : n + k \in 1 .. n + m /\ a[n + k] = r[k]
  BY <1>1, <1>4
<1>7. \A k \in 1 .. n + m : k \in 1 .. n \/ (k - n \in 1 .. m /\ k = n + (k - n))
  BY <1>1
<1>8. /\ \A k, p \in 1 .. n : s[k] = s[p] => k = p
      /\ \A k, p \in 1 .. m : r[k] = r[p] => k = p
  BY <1>1 DEF Lists, IsInjective
<1>9. ASSUME NEW k \in 1 .. n + m, NEW p \in 1 .. n + m, a[k] = a[p] PROVE k = p
  <2>1. CASE k \in 1 .. n /\ p \in 1 .. n
    BY <1>5, <1>8, <1>9, <2>1
  <2>2. CASE k - n \in 1 .. m /\ k = n + (k - n) /\ p - n \in 1 .. m /\ p = n + (p - n)
    <3>1. a[k] = r[k - n] /\ a[p] = r[p - n]
      BY <1>6, <2>2
    <3>2. k - n = p - n
      BY <1>8, <1>9, <2>2, <3>1
    <3> QED BY <2>2, <3>2
  <2>3. CASE k \in 1 .. n /\ p - n \in 1 .. m /\ p = n + (p - n)
    <3>1. a[k] \in X /\ a[p] \in Y
      BY <1>1, <1>5, <1>6, <2>3
    <3> QED BY <1>9, <3>1
  <2>4. CASE p \in 1 .. n /\ k - n \in 1 .. m /\ k = n + (k - n)
    <3>1. a[p] \in X /\ a[k] \in Y
      BY <1>1, <1>5, <1>6, <2>4
    <3> QED BY <1>9, <3>1
  <2> QED BY <1>7, <2>1, <2>2, <2>3, <2>4
<1>10. Range(a) = X \cup Y
  <2>1. /\ Range(a) = {a[k] : k \in 1 .. n + m}
        /\ X = {s[k] : k \in 1 .. n} /\ Y = {r[k] : k \in 1 .. m}
    BY <1>1, <1>3 DEF Range, Lists
  <2>2. ASSUME NEW x \in X PROVE x \in Range(a)
    <3>1. PICK k \in 1 .. n : x = s[k]
      BY <2>1
    <3> QED BY <1>5, <2>1, <3>1
  <2>3. ASSUME NEW x \in Y PROVE x \in Range(a)
    <3>1. PICK k \in 1 .. m : x = r[k]
      BY <2>1
    <3> QED BY <1>6, <2>1, <3>1
  <2>4. ASSUME NEW x \in Range(a) PROVE x \in X \cup Y
    <3>1. PICK k \in 1 .. n + m : x = a[k]
      BY <2>1
    <3>2. CASE k \in 1 .. n
      BY <1>1, <1>5, <3>1, <3>2
    <3>3. CASE k - n \in 1 .. m /\ k = n + (k - n)
      <4>1. a[k] = r[k - n]
        BY <1>6, <3>3
      <4> QED BY <1>1, <3>1, <3>3, <4>1
    <3> QED BY <1>7, <3>2, <3>3
  <2> QED BY <2>2, <2>3, <2>4
<1> QED BY <1>2, <1>3, <1>9, <1>10 DEF Lists, IsInjective, a

\* Startup schedules one task after the other.
ScheduleStep(p, c, t) == Schedule(c, t)
ScheduledUpTo(p, n, c) ==
    /\ DOMAIN c = MasterFields /\ Same(p.c, c, {"tasks", "startTimer"})
    /\ Lists(c.tasks, {p.s[k] : k \in 1 .. n})

Scheduling == INSTANCE FoldSteps WITH Step <- ScheduleStep, Holds <- ScheduledUpTo

\* Then they are all scheduled.
LEMMA ScheduleAll ==
    ASSUME NEW c, DOMAIN c = MasterFields, c.tasks = <<>>, NEW s, NEW X, Lists(s, X)
    PROVE  LET d == FoldLeft(Schedule, c, s)
           IN  Same(c, d, {"tasks", "startTimer"}) /\ Lists(d.tasks, X)
<1> DEFINE p == [c |-> c, s |-> s]
           n == Len(s)
           d == FoldLeft(Schedule, c, s)
<1>1. DOMAIN s = 1 .. n /\ n \in Nat /\ X = {s[k] : k \in 1 .. n}
  BY DEF Lists, Range
<1>2. d = Scheduling!Folded(p, c, s)
  BY DEF FoldLeft, MapThenFoldSet, Max, ScheduleStep,
         Scheduling!Folded, Scheduling!Folding, Scheduling!Largest
<1>3. ScheduledUpTo(p, 0, c)
  <2>1. {p.s[k] : k \in 1 .. 0} = {}
    OBVIOUS
  <2> QED BY <2>1, ListsNone DEF ScheduledUpTo, Same
<1>4. ASSUME NEW m \in 1 .. n, NEW x, ScheduledUpTo(p, m - 1, x)
      PROVE  ScheduledUpTo(p, m, ScheduleStep(p, x, s[m]))
  <2> DEFINE y == Schedule(x, s[m])
             A == {s[k] : k \in 1 .. m - 1}
  <2>1. DOMAIN x = MasterFields /\ Same(c, x, {"tasks", "startTimer"}) /\ Lists(x.tasks, A)
    BY <1>4 DEF ScheduledUpTo
  <2>2. Same(x, y, {"tasks", "startTimer"}) /\ y.tasks = Append(x.tasks, s[m])
    BY <2>1, ScheduleEffect
  <2>3. s[m] \notin A
    <3>1. \A k \in 1 .. m - 1 : k \in DOMAIN s /\ m \in DOMAIN s /\ k # m
      BY <1>1
    <3> QED BY <3>1 DEF Lists, IsInjective
  <2>4. {s[k] : k \in 1 .. m} = A \cup {s[m]}
    <3>1. 1 .. m = (1 .. m - 1) \cup {m}
      OBVIOUS
    <3> QED BY <3>1
  <2>5. Lists(y.tasks, {s[k] : k \in 1 .. m})
    <3> HIDE DEF A, y
    <3>1. Lists(y.tasks, A \cup {s[m]})
      BY <2>1, <2>2, <2>3, ListsAppend
    <3> QED BY <2>4, <3>1
  <2>6. DOMAIN y = MasterFields /\ Same(c, y, {"tasks", "startTimer"})
    BY <2>1, <2>2 DEF Same
  <2> HIDE DEF y
  <2> QED BY <2>5, <2>6 DEF ScheduledUpTo, ScheduleStep, y
<1>5. ScheduledUpTo(p, n, Scheduling!Folded(p, c, s))
  <2> HIDE DEF p
  <2> QED BY <1>1, <1>3, <1>4, Scheduling!FoldInduction
<1> QED BY <1>1, <1>2, <1>5 DEF ScheduledUpTo

\* A master goes up: it schedules all its recurring tasks, and looks for one.
LEMMA MasterUpServes ==
    ASSUME Scheduled, NEW i \in Masters, MasterUp(i) PROVE Served(i)
<1> DEFINE c == master[i]
           b == [c EXCEPT !.isOnline = TRUE]
           s == StartupTasks \o c.bound
           X == Range(StartupTasks) \cup Range(c.bound)
           d == FoldLeft(Schedule, b, s)
           e == Post(d)
           l == OnLayerUp(lock, i)
           g == LowerLayerUp(Handler(i), i)
<1>1. /\ DOMAIN c = MasterFields /\ Sane(c) /\ Timed(c) /\ ~c.isOnline /\ c.posted \in Nat
      /\ c.expiration \in [Task -> Nat]
  BY HandlerFacts DEF MasterUp, Sane, Expirations
<1>2. Mine(c) = {} /\ c.tasks = <<>> /\ c.active = None
  <2>1. Mine(c) = {} /\ Lists(c.tasks, Range(c.tasks))
    BY <1>1 DEF Sane
  <2> QED BY <2>1, ListsNone DEF Mine
<1>3. Lists(s, X) /\ X \subseteq Recurring
  <2>1. Lists(StartupTasks, Range(StartupTasks))
    <3>1. \A k \in DOMAIN StartupTasks : StartupTasks[k] \in Range(StartupTasks)
      BY DEF Range
    <3>2. StartupTasks \in Seq(Range(StartupTasks)) /\ IsInjective(StartupTasks)
      BY <3>1, MasterAssumption
    <3> QED BY <3>2 DEF Lists
  <2>2. Lists(c.bound, Range(c.bound)) /\ Range(c.bound) \subseteq Polls
    BY <1>1 DEF Sane
  <2>3. Range(StartupTasks) \cap Range(c.bound) = {} /\ X \subseteq Recurring
    BY <2>2, TaskKinds
  <2> HIDE DEF c
  <2> QED BY <2>1, <2>2, <2>3, ListsJoin
<1>4. Same(c, b, {"isOnline"}) /\ b.isOnline = TRUE /\ DOMAIN b = MasterFields /\ b.tasks = <<>>
  BY <1>1, <1>2 DEF Same
<1>5. g = [Handler(i) EXCEPT !.c = e, !.lock = l]
  BY HandlerFacts DEF LowerLayerUp
<1> HIDE DEF b, s, X
<1>6. Same(b, d, {"tasks", "startTimer"}) /\ Lists(d.tasks, X)
  BY <1>3, <1>4, ScheduleAll
<1> HIDE DEF d
<1>7. DOMAIN d = MasterFields
  BY <1>4, <1>6 DEF Same
<1>8. Same(d, e, {"posted"}) /\ e.posted = d.posted + 1
  BY <1>7 DEF Post, Same
<1> HIDE DEF e
<1>9. /\ Same(c, e, {"isOnline", "tasks", "startTimer", "posted"})
      /\ e.isOnline = TRUE /\ e.tasks = d.tasks /\ e.posted = c.posted + 1
      /\ DOMAIN e = MasterFields
  BY <1>1, <1>4, <1>6, <1>7, <1>8 DEF Same
<1>10. /\ e.active = None /\ e.bound = c.bound /\ e.responseTimer = c.responseTimer
       /\ e.isSending = c.isSending /\ e.tstate = c.tstate /\ e.solSeq = c.solSeq
       /\ e.scheduleTimer = c.scheduleTimer /\ e.expiration = c.expiration
  BY <1>1, <1>2, <1>9 DEF Same
<1>11. Range(e.tasks) = X /\ Lists(e.tasks, Range(e.tasks))
  BY <1>6, <1>9 DEF Lists
<1>12. X \subseteq Task /\ X \cap Adhoc = {} /\ X \ Adhoc = X
  BY <1>3, TaskKinds
<1>13. Sane(e) /\ Timed(e)
  <2>1. Expirations(e.expiration, Range(e.tasks))
    BY <1>1, <1>10, <1>11, <1>12 DEF Expirations
  <2>2. Mine(e) = X /\ Due(e) = X
    BY <1>9, <1>10, <1>11 DEF Mine, Due, X
  <2>3. None \notin Range(e.tasks)
    BY <1>11, <1>12, TaskKinds
  <2>4. /\ e.isSending \in BOOLEAN /\ e.responseTimer \in BOOLEAN /\ e.solSeq \in Seqs
        /\ e.scheduleTimer \in Nat /\ e.posted \in Nat
        /\ e.tstate \in {"IDLE", "TASK_READY", "WAIT_FOR_RESPONSE"}
        /\ Lists(e.bound, Range(e.bound)) /\ Range(e.bound) \subseteq Polls
    BY <1>1, <1>9, <1>10 DEF Sane
  <2>5. Mine(e) \ Adhoc = Due(e)
    BY <1>12, <2>2
  <2>6. Sane(e)
    BY <1>9, <1>10, <1>11, <2>1, <2>3, <2>4, <2>5 DEF Sane
  <2>7. Timed(e)
    BY <1>1, <1>2, <1>9, <1>10 DEF Timed
  <2> QED BY <2>6, <2>7
<1>14. /\ DOMAIN g = HandlerFields /\ g.c = e /\ g.lock = l /\ g.called = <<>>
  BY <1>5, HandlerFacts
<1>15. FinishFrom(calls, g, i) /\ asked' = asked /\ unprompted' = unprompted
  BY DEF MasterUp, Finish
<1> HIDE DEF g
<1>16. Ok(g) /\ Seen(g.c)
  BY <1>1, <1>9, <1>13, <1>14 DEF Ok, Seen
<1>17. Given(i, Mine(c), calls)
  BY DEF Given
<1>18. Keeps(Mine(c), g) /\ Drops(Mine(c), g)
  <2>1. Mine(g.c) = X
    BY <1>10, <1>11, <1>14 DEF Mine
  <2> QED BY <1>2, <1>12, <1>14, <2>1, NoneCounts
<1>19. StartsFirst(i, g)
  BY <1>10, <1>14 DEF StartsFirst
<1>20. ASSUME Locked PROVE KeepsLock(i, g)
  <2>1. LockFine(Handler(i), i) /\ Ready(lock, i, c) /\ InOrder(lock)
    BY <1>20 DEF Locked
  <2>2. /\ l.isOnline = TRUE /\ l.active = lock.active /\ l.queue = lock.queue
        /\ l.woken = lock.woken /\ l.known = lock.known \cup {i} /\ DOMAIN l = DOMAIN lock
    BY <2>1 DEF OnLayerUp, InOrder
  <2> HIDE DEF l
  <2>3. InOrder(l)
    BY <2>1, <2>2 DEF InOrder
  <2>4. Placed(lock, i, c)
    BY <2>1, HandlerFacts DEF LockFine
  <2>5. e.tstate = "IDLE"
    BY <1>1, <1>10 DEF Timed
  <2>6. Placed(l, i, e) /\ Ready(l, i, e)
    BY <1>10, <2>2, <2>4, <2>5 DEF Placed, Ready
  <2>7. OthersPass(lock, l, i)
    BY <2>2 DEF OthersPass
  <2> QED BY <1>14, <2>2, <2>3, <2>6, <2>7 DEF KeepsLock
<1>21. Late(asked[i], c) => Late(asked'[i], g.c)
  BY <1>10, <1>14, <1>15 DEF Late
<1>22. DOMAIN asked' = Masters
  BY <1>15 DEF Scheduled
<1> HIDE DEF c
<1>23. Serves(i, Mine(c), calls, g)
  BY <1>15, <1>16, <1>17, <1>18, <1>19, <1>20, <1>21, <1>22 DEF Serves, c
<1> QED BY <1>23 DEF Served

\* A scan is added.
LEMMA AddScanServes ==
    ASSUME Scheduled, NEW i \in Masters, NEW q \in Polls, AddScan(i, q) PROVE Served(i)
<1> DEFINE c == master[i]
           b == [c EXCEPT !.bound = Append(@, q)]
           d == Schedule(b, q)
           e == IF b.isOnline THEN Post(d) ELSE b
           g == [Handler(i) EXCEPT !.c = e]
<1>1. /\ DOMAIN c = MasterFields /\ Sane(c) /\ Timed(c) /\ c.posted \in Nat
      /\ Lists(c.bound, Range(c.bound)) /\ Lists(c.tasks, Range(c.tasks))
      /\ Mine(c) \ Adhoc = Due(c) /\ Expirations(c.expiration, Range(c.tasks))
  BY HandlerFacts DEF Sane
<1>2. q \notin Range(c.bound)
  BY <1>1, ListsContains DEF AddScan
<1>3. q \in Task /\ q \notin Adhoc /\ q # None /\ q \notin Range(StartupTasks)
  BY TaskKinds
<1>4. Lists(Append(c.bound, q), Range(c.bound) \cup {q})
  BY <1>1, <1>2, ListsAppend
<1>5. Same(c, b, {"bound"}) /\ b.bound = Append(c.bound, q) /\ DOMAIN b = MasterFields
  BY <1>1 DEF Same
<1>6. g = [Handler(i) EXCEPT !.c = e] /\ FinishFrom(calls, g, i)
      /\ asked' = asked /\ unprompted' = unprompted
  BY DEF AddScan, Finish
<1> HIDE DEF b
<1>7. Range(b.bound) = Range(c.bound) \cup {q} /\ Lists(b.bound, Range(b.bound))
  BY <1>4, <1>5 DEF Lists
<1>8. /\ b.isOnline = c.isOnline /\ b.active = c.active /\ b.responseTimer = c.responseTimer
      /\ b.isSending = c.isSending /\ b.tstate = c.tstate /\ b.solSeq = c.solSeq
      /\ b.scheduleTimer = c.scheduleTimer /\ b.expiration = c.expiration
      /\ b.tasks = c.tasks /\ b.posted = c.posted
  BY <1>1, <1>5 DEF Same
<1>9. q \notin Mine(c)
  BY <1>1, <1>2, <1>3 DEF Due
<1>10. /\ Sane(e) /\ Timed(e) /\ (Seen(c) => Seen(e))
       /\ e.isOnline = c.isOnline /\ e.tstate = c.tstate /\ e.solSeq = c.solSeq
       /\ e.active = c.active /\ e.isSending = c.isSending /\ e.posted >= c.posted
       /\ Mine(e) \cap Adhoc = Mine(c) \cap Adhoc
  <2>1. CASE c.isOnline
    <3> DEFINE f == Post(d)
    <3>1. e = f
      BY <1>8, <2>1
    <3>2. Same(b, d, {"tasks", "startTimer"}) /\ d.tasks = Append(c.tasks, q)
      BY <1>5, <1>8, ScheduleEffect
    <3> HIDE DEF d
    <3>3. DOMAIN d = MasterFields /\ d.posted = c.posted
      BY <1>5, <1>8, <3>2 DEF Same
    <3>4. Same(d, f, {"posted"}) /\ f.posted = c.posted + 1
      BY <3>3 DEF Post, Same
    <3> HIDE DEF f
    <3>5. /\ DOMAIN f = MasterFields /\ f.tasks = Append(c.tasks, q) /\ f.bound = b.bound
          /\ f.isOnline = c.isOnline /\ f.active = c.active /\ f.responseTimer = c.responseTimer
          /\ f.isSending = c.isSending /\ f.tstate = c.tstate /\ f.solSeq = c.solSeq
          /\ f.scheduleTimer = c.scheduleTimer /\ f.expiration = c.expiration
      BY <1>5, <1>8, <3>2, <3>3, <3>4 DEF Same
    <3>6. Lists(f.tasks, Range(c.tasks) \cup {q})
      BY <1>1, <1>9, <3>5, ListsAppend DEF Mine
    <3>7. Range(f.tasks) = Range(c.tasks) \cup {q} /\ Lists(f.tasks, Range(f.tasks))
      BY <3>6 DEF Lists
    <3>8. Mine(f) = Mine(c) \cup {q} /\ Due(f) = Due(c) \cup {q}
      BY <1>7, <2>1, <3>5, <3>7 DEF Mine, Due
    <3>9. Expirations(f.expiration, Range(f.tasks))
      BY <1>1, <1>3, <3>5, <3>7 DEF Expirations
    <3>10. Sane(f)
      <4>1. f.active \in (Task \cup {None}) \ Range(f.tasks)
        BY <1>1, <1>3, <1>9, <3>5, <3>7 DEF Sane, Mine
      <4>2. Mine(f) \ Adhoc = Due(f)
        BY <1>1, <1>3, <3>8
      <4>3. /\ f.isSending \in BOOLEAN /\ f.responseTimer \in BOOLEAN /\ f.solSeq \in Seqs
            /\ f.scheduleTimer \in Nat /\ f.posted \in Nat /\ f.isOnline
            /\ f.tstate \in {"IDLE", "TASK_READY", "WAIT_FOR_RESPONSE"}
        BY <1>1, <2>1, <3>4, <3>5 DEF Sane
      <4>4. Lists(f.bound, Range(f.bound)) /\ Range(f.bound) \subseteq Polls
        BY <1>1, <1>7, <3>5 DEF Sane
      <4> QED BY <3>5, <3>7, <3>9, <4>1, <4>2, <4>3, <4>4 DEF Sane
    <3>11. Timed(f) /\ Seen(f)
      BY <1>1, <3>4, <3>5 DEF Timed, Seen
    <3> QED BY <1>1, <1>3, <3>1, <3>4, <3>5, <3>8, <3>10, <3>11
  <2>2. CASE ~c.isOnline
    <3>1. e = b
      BY <1>8, <2>2
    <3>2. Mine(b) = Mine(c) /\ Due(b) = Due(c)
      BY <1>8, <2>2 DEF Mine, Due
    <3>3. Sane(b)
      BY <1>1, <1>5, <1>7, <1>8, <3>2 DEF Sane
    <3>4. Timed(b) /\ Seen(b)
      BY <1>1, <1>8, <2>2 DEF Timed, Seen
    <3> QED BY <1>1, <1>8, <3>1, <3>2, <3>3, <3>4
  <2> QED BY <2>1, <2>2
<1> HIDE DEF e
<1>11. DOMAIN g = HandlerFields /\ g.c = e /\ g.lock = lock /\ g.called = <<>>
  BY HandlerFacts
<1> HIDE DEF g
<1>12. Ok(g) /\ (i \notin unprompted' => Seen(g.c))
  BY <1>6, <1>10, <1>11 DEF Ok, Scheduled
<1>13. Keeps(Mine(c), g) /\ Drops(Mine(c), g)
  BY <1>10, <1>11, NoneCounts
<1> QED BY <1>6, <1>10, <1>11, <1>12, <1>13, QuietServes

\* A scan is demanded.
LEMMA DemandScanServes ==
    ASSUME Scheduled, NEW i \in Masters, NEW q \in Polls, DemandScan(i, q) PROVE Served(i)
<1> DEFINE c == master[i]
           b == Demand(c, q)
           e == Post(b)
           g == [Handler(i) EXCEPT !.c = e]
           x == [c.expiration EXCEPT ![q] = 0]
<1>1. /\ DOMAIN c = MasterFields /\ Sane(c) /\ Timed(c) /\ c.posted \in Nat
      /\ Expirations(c.expiration, Range(c.tasks))
  BY HandlerFacts DEF Sane
<1>2. Expirations(x, Range(c.tasks))
  BY <1>1, TaskKinds DEF Expirations
<1>3. Same(c, b, {"expiration"}) /\ b.expiration = x /\ DOMAIN b = MasterFields /\ b.posted = c.posted
  BY <1>1 DEF Same, Demand
<1>4. g = [Handler(i) EXCEPT !.c = e] /\ FinishFrom(calls, g, i)
      /\ asked' = asked /\ unprompted' = unprompted
  <2>1. [Handler(i) EXCEPT !.c = Post(Demand(@, q))] = g
    BY HandlerFacts
  <2> HIDE DEF g
  <2> QED BY <2>1 DEF DemandScan, Finish, g
<1> HIDE DEF b, x
<1>5. Same(b, e, {"posted"}) /\ e.posted = c.posted + 1
  BY <1>3 DEF Post, Same
<1> HIDE DEF e
<1>6. /\ DOMAIN e = MasterFields /\ e.tasks = c.tasks /\ e.bound = c.bound
      /\ e.isOnline = c.isOnline /\ e.active = c.active /\ e.responseTimer = c.responseTimer
      /\ e.isSending = c.isSending /\ e.tstate = c.tstate /\ e.solSeq = c.solSeq
      /\ e.scheduleTimer = c.scheduleTimer /\ e.expiration = x
  BY <1>1, <1>3, <1>5 DEF Same
<1>7. Mine(e) = Mine(c) /\ Due(e) = Due(c)
  BY <1>6 DEF Mine, Due
<1>8. Sane(e) /\ Timed(e) /\ Seen(e)
  BY <1>1, <1>2, <1>5, <1>6, <1>7 DEF Sane, Timed, Seen
<1>11. DOMAIN g = HandlerFields /\ g.c = e /\ g.lock = lock /\ g.called = <<>>
  BY HandlerFacts
<1> HIDE DEF g
<1>12. Ok(g)
  BY <1>8, <1>11 DEF Ok
<1>13. Keeps(Mine(c), g) /\ Drops(Mine(c), g)
  BY <1>7, <1>11, NoneCounts
<1> QED BY <1>1, <1>4, <1>5, <1>6, <1>8, <1>11, <1>12, <1>13, QuietServes

\* An unsolicited response may be confirmed, and may make tasks due.
LEMMA ReceiveUnsolicitedServes ==
    ASSUME Scheduled, NEW i \in Masters, NEW r, ReceiveUnsolicited(i, r) PROVE Served(i)
<1> DEFINE c == master[i]
           b == IF r.objects # "bad" /\ r.con THEN QueueConfirm(c, TRUE, 0) ELSE c
           e == ProcessIIN(b, r.iin)
           g == [Handler(i) EXCEPT !.c = e]
<1>1. DOMAIN c = MasterFields /\ Sane(c) /\ Timed(c) /\ c.posted \in Nat
  BY HandlerFacts DEF Sane
<1>2. /\ Same(c, b, {"isSending", "confirmQueue"}) /\ b.isSending \in BOOLEAN
      /\ c.isSending => b.isSending
  <2>1. c.isSending \in BOOLEAN
    BY <1>1 DEF Sane
  <2>2. Same(c, c, {"isSending", "confirmQueue"})
    BY DEF Same
  <2> HIDE DEF c
  <2>3. /\ Same(c, QueueConfirm(c, TRUE, 0), {"isSending", "confirmQueue"})
        /\ QueueConfirm(c, TRUE, 0).isSending \in BOOLEAN
        /\ c.isSending => QueueConfirm(c, TRUE, 0).isSending
    BY <1>1, <2>1, ConfirmEffect
  <2> QED BY <2>1, <2>2, <2>3
<1>3. FinishFrom(calls, g, i) /\ asked' = asked
      /\ unprompted' = IF DemandedBy(r.iin) # {} THEN unprompted \cup {i} ELSE unprompted
  <2>1. [Handler(i) EXCEPT !.c = ProcessUnsolicitedResponse(@, r)] = g
    BY HandlerFacts DEF ProcessUnsolicitedResponse
  <2> HIDE DEF g
  <2> QED BY <2>1 DEF ReceiveUnsolicited, Finish
<1> HIDE DEF b
<1>4. Sane(b) /\ DOMAIN b = MasterFields
  <2>1. Same(c, b, FreeFields \cup TypedFields)
    BY <1>2 DEF Same, FreeFields, TypedFields
  <2>2. Typed(b)
    BY <1>1, <1>2 DEF Typed, Same, Sane
  <2>3. Sane(b)
    BY <1>1, <2>1, <2>2, SameSane
  <2> QED BY <2>3 DEF Sane
<1>5. /\ Sane(e) /\ Same(b, e, {"expiration"})
      /\ DemandedBy(r.iin) = {} => e.expiration = b.expiration
  BY <1>4, ProcessIINEffect
<1> HIDE DEF e
<1>6. /\ DOMAIN e = MasterFields /\ e.tasks = c.tasks /\ e.posted = c.posted
      /\ e.isOnline = c.isOnline /\ e.active = c.active /\ e.responseTimer = c.responseTimer
      /\ e.tstate = c.tstate /\ e.solSeq = c.solSeq
      /\ e.scheduleTimer = c.scheduleTimer
      /\ c.isSending => e.isSending
      /\ DemandedBy(r.iin) = {} => e.expiration = c.expiration
  BY <1>1, <1>2, <1>4, <1>5 DEF Same
<1>7. Timed(e) /\ Mine(e) = Mine(c)
  BY <1>1, <1>6 DEF Timed, Mine
<1>8. i \notin unprompted' => Seen(e)
  <2> SUFFICES ASSUME i \notin unprompted' PROVE Seen(e)
    OBVIOUS
  <2>1. DemandedBy(r.iin) = {} /\ i \notin unprompted
    BY <1>3
  <2>2. Seen(c)
    BY <2>1 DEF Scheduled
  <2> QED BY <1>6, <2>1, <2>2 DEF Seen
<1>11. DOMAIN g = HandlerFields /\ g.c = e /\ g.lock = lock /\ g.called = <<>>
  BY HandlerFacts
<1> HIDE DEF g
<1>12. Ok(g) /\ unprompted \ {i} \subseteq unprompted'
  BY <1>3, <1>5, <1>7, <1>11 DEF Ok
<1>13. Keeps(Mine(c), g) /\ Drops(Mine(c), g)
  BY <1>7, <1>11, NoneCounts
<1> QED BY <1>1, <1>3, <1>6, <1>8, <1>11, <1>12, <1>13, QuietServes

----------------------------------------------------------------------------
(* The start timeout.                                                       *)

\* The handler that started with b went through the tasks A: those in O were
\* told, and the others stay.
TimedOut(b, A, O, h) ==
    /\ DOMAIN h = HandlerFields /\ h.lock = b.lock /\ h.sent = b.sent
    /\ Same(b.c, h.c, {"tasks", "startTimer", "expiration"})
    /\ Lists(h.c.tasks, A \ O) /\ Lists(h.called, A \cap O)
    /\ h.c.expiration \in [Task -> Nat]
    /\ \A u \in Task \ O : h.c.expiration[u] = b.c.expiration[u]

\* CheckTaskStartTimeout goes through the tasks p.s.
UpTo(s, n) == {s[k] : k \in 1 .. n}
TimeoutStep(p, h, t) == RemoveIfTimedOut(h, t)
TimedOutUpTo(p, n, h) == TimedOut(p.h, UpTo(p.s, n), p.out, h)

Timeouts == INSTANCE FoldSteps WITH Step <- TimeoutStep, Holds <- TimedOutUpTo

\* One task stays, or is told.
LEMMA TimeoutStepEffect ==
    ASSUME NEW b, DOMAIN b.c = MasterFields, NEW O, O = {u \in Adhoc : b.c.startBy[u] = 0},
           NEW h, NEW A, NEW t \in Task, t \notin A, TimedOut(b, A, O, h)
    PROVE  TimedOut(b, A \cup {t}, O, RemoveIfTimedOut(h, t))
<1> DEFINE g == RemoveIfTimedOut(h, t)
           B == A \cup {t}
<1>1. /\ DOMAIN h = HandlerFields /\ h.lock = b.lock /\ h.sent = b.sent
      /\ Same(b.c, h.c, {"tasks", "startTimer", "expiration"})
      /\ Lists(h.c.tasks, A \ O) /\ Lists(h.called, A \cap O)
      /\ h.c.expiration \in [Task -> Nat]
      /\ \A u \in Task \ O : h.c.expiration[u] = b.c.expiration[u]
      /\ DOMAIN h.c = MasterFields /\ h.c.startBy = b.c.startBy
  BY DEF TimedOut, Same
<1>2. StartTimedOut(h.c, t) <=> t \in O
  BY <1>1 DEF StartTimedOut
<1>3. CASE t \in O
  <2>1. g = Notify(h, t, "FAILURE_START_TIMEOUT")
    BY <1>2, <1>3 DEF RemoveIfTimedOut
  <2> HIDE DEF g
  <2>2. /\ Same(h, g, {"c", "called"}) /\ Same(h.c, g.c, {"expiration"})
        /\ g.called = Append(h.called, t)
        /\ g.c.expiration \in [Task -> Nat]
        /\ \A u \in Task : u # t => g.c.expiration[u] = h.c.expiration[u]
    BY <1>1, <2>1, NotifyEffect
  <2>3. g.c.tasks = h.c.tasks /\ DOMAIN g = HandlerFields /\ g.lock = b.lock /\ g.sent = b.sent
        /\ Same(b.c, g.c, {"tasks", "startTimer", "expiration"})
    BY <1>1, <2>2 DEF Same
  <2>4. B \ O = A \ O /\ B \cap O = (A \cap O) \cup {t} /\ t \notin A \cap O
    BY <1>3
  <2>5. Lists(Append(h.called, t), (A \cap O) \cup {t})
    BY <1>1, <2>4, ListsAppend
  <2>6. \A u \in Task \ O : u # t
    BY <1>3
  <2> HIDE DEF B
  <2>7. TimedOut(b, B, O, g)
    BY <1>1, <2>2, <2>3, <2>4, <2>5, <2>6 DEF TimedOut
  <2> QED BY <2>7 DEF g, B
<1>4. CASE t \notin O
  <2> DEFINE d == [h.c EXCEPT !.tasks = Append(@, t)]
  <2>1. g = [h EXCEPT !.c = d]
    BY <1>2, <1>4 DEF RemoveIfTimedOut
  <2>2. Same(h.c, d, {"tasks"}) /\ d.tasks = Append(h.c.tasks, t) /\ d.expiration = h.c.expiration
    BY <1>1 DEF Same
  <2> HIDE DEF d, g
  <2>3. /\ g.c = d /\ DOMAIN g = HandlerFields /\ g.lock = h.lock /\ g.sent = h.sent
        /\ g.called = h.called
    BY <1>1, <2>1
  <2>4. Same(b.c, d, {"tasks", "startTimer", "expiration"})
    BY <1>1, <2>2 DEF Same
  <2>5. B \ O = (A \ O) \cup {t} /\ B \cap O = A \cap O /\ t \notin A \ O
    BY <1>4
  <2>6. Lists(Append(h.c.tasks, t), (A \ O) \cup {t})
    BY <1>1, <2>5, ListsAppend
  <2> HIDE DEF B
  <2>7. TimedOut(b, B, O, g)
    BY <1>1, <2>2, <2>3, <2>4, <2>5, <2>6 DEF TimedOut
  <2> QED BY <2>7 DEF g, B
<1> QED BY <1>3, <1>4

\* After all of them, the tasks that did not time out are left.
LEMMA TimeoutEffect ==
    ASSUME NEW h, DOMAIN h = HandlerFields, Sane(h.c), h.called = <<>>
    PROVE  TimedOut(h, Range(h.c.tasks), {u \in Adhoc : h.c.startBy[u] = 0},
                    CheckTaskStartTimeout(h))
<1> DEFINE b == [h EXCEPT !.c.tasks = <<>>, !.c.startTimer = Never]
           X == Range(h.c.tasks)
           O == {u \in Adhoc : h.c.startBy[u] = 0}
           s == h.c.tasks
           p == [h |-> h, s |-> s, out |-> O]
           n == Len(s)
           d == [h.c EXCEPT !.tasks = <<>>, !.startTimer = Never]
           g == CheckTaskStartTimeout(h)
<1>1. /\ DOMAIN h.c = MasterFields /\ Lists(s, X) /\ h.c.expiration \in [Task -> Nat]
      /\ X \subseteq Task
  BY DEF Sane, Expirations
<1>2. DOMAIN s = 1 .. n /\ n \in Nat /\ X = UpTo(s, n) /\ IsInjective(s)
  BY <1>1 DEF Lists, Range, UpTo
<1>3. g = Timeouts!Folded(p, b, s)
  BY DEF CheckTaskStartTimeout, FoldLeft, MapThenFoldSet, Max, TimeoutStep,
         Timeouts!Folded, Timeouts!Folding, Timeouts!Largest
<1>4. p.h = h /\ p.s = s /\ p.out = O
  OBVIOUS
<1>5. TimedOut(h, {}, O, b)
  <2>1. Same(h.c, d, {"tasks", "startTimer"}) /\ d.tasks = <<>> /\ d.expiration = h.c.expiration
    BY <1>1 DEF Same
  <2>2. b = [h EXCEPT !.c = d]
    BY <1>1
  <2> HIDE DEF d, b, O
  <2>3. DOMAIN b = HandlerFields /\ b.c = d /\ b.lock = h.lock /\ b.sent = h.sent /\ b.called = <<>>
    BY <2>2
  <2>4. Same(h.c, d, {"tasks", "startTimer", "expiration"})
    BY <2>1 DEF Same
  <2>5. {} \ O = {} /\ {} \cap O = {}
    OBVIOUS
  <2> QED BY <1>1, <2>1, <2>3, <2>4, <2>5, ListsNone DEF TimedOut
<1> HIDE DEF p, g
<1>6. TimedOutUpTo(p, 0, b)
  <2>1. UpTo(s, 0) = {}
    BY DEF UpTo
  <2> HIDE DEF b, O, s
  <2> QED BY <1>4, <1>5, <2>1 DEF TimedOutUpTo
<1>7. ASSUME NEW m \in 1 .. n, NEW x, TimedOutUpTo(p, m - 1, x)
      PROVE  TimedOutUpTo(p, m, TimeoutStep(p, x, s[m]))
  <2> DEFINE A == UpTo(s, m - 1)
             t == s[m]
  <2>1. t \in Task
    BY <1>1, <1>2 DEF UpTo
  <2>2. t \notin A
    <3>1. \A k \in 1 .. m - 1 : k \in DOMAIN s /\ m \in DOMAIN s /\ k # m
      BY <1>2
    <3> QED BY <1>2, <3>1 DEF IsInjective, UpTo
  <2>3. UpTo(s, m) = A \cup {t}
    <3>1. 1 .. m = (1 .. m - 1) \cup {m}
      OBVIOUS
    <3> QED BY <3>1 DEF UpTo
  <2>4. TimedOut(h, A, O, x)
    BY <1>4, <1>7 DEF TimedOutUpTo
  <2> HIDE DEF A, t
  <2>5. TimedOut(h, A \cup {t}, O, RemoveIfTimedOut(x, t))
    BY <1>1, <2>1, <2>2, <2>4, TimeoutStepEffect
  <2> QED BY <1>4, <2>3, <2>5 DEF TimeoutStep, TimedOutUpTo, t
<1>8. TimedOutUpTo(p, n, Timeouts!Folded(p, b, s))
  <2> HIDE DEF b, s, n
  <2> QED BY <1>2, <1>6, <1>7, Timeouts!FoldInduction
<1>9. TimedOut(h, X, O, g)
  <2> HIDE DEF b, O, s, X
  <2> QED BY <1>2, <1>3, <1>4, <1>8 DEF TimedOutUpTo
<1> QED BY <1>9 DEF g

\* Each of the tasks in a list is called once.
LEMMA ListCounts ==
    ASSUME NEW g, NEW Y, Lists(g.called, Y), NEW t
    PROVE  Count(g, t) = IF t \in Y THEN 1 ELSE 0
<1> DEFINE s == g.called
           K == {k \in DOMAIN s : s[k] = t}
<1>1. Y = {s[k] : k \in DOMAIN s} /\ IsInjective(s)
  BY DEF Lists, Range
<1>2. CASE t \in Y
  <2>1. PICK k \in DOMAIN s : s[k] = t
    BY <1>1, <1>2
  <2>2. K = {k}
    BY <1>1, <2>1 DEF IsInjective
  <2> QED BY <1>2, <2>2, FS_Singleton DEF Count
<1>3. CASE t \notin Y
  <2>1. K = {}
    BY <1>1, <1>3
  <2> QED BY <1>3, <2>1, FS_EmptySet DEF Count
<1> QED BY <1>2, <1>3

\* The start timer runs out.
LEMMA StartTimerExpiresServes ==
    ASSUME Scheduled, NEW i \in Masters, StartTimerExpires(i) PROVE Served(i)
<1> DEFINE c == master[i]
           X == Range(c.tasks)
           O == {u \in Adhoc : c.startBy[u] = 0}
           g == CheckTaskStartTimeout(Handler(i))
           d == g.c
<1>1. /\ DOMAIN c = MasterFields /\ Sane(c) /\ Timed(c) /\ c.posted \in Nat
      /\ Expirations(c.expiration, X) /\ Lists(c.tasks, X) /\ c.active \notin X
      /\ X \subseteq Mine(c)
  BY HandlerFacts DEF Sane, Mine
<1>2. /\ DOMAIN g = HandlerFields /\ g.lock = lock
      /\ Same(c, d, {"tasks", "startTimer", "expiration"})
      /\ Lists(d.tasks, X \ O) /\ Lists(g.called, X \cap O)
      /\ d.expiration \in [Task -> Nat]
      /\ \A u \in Task \ O : d.expiration[u] = c.expiration[u]
  <2> DEFINE h == Handler(i)
  <2>1. DOMAIN h = HandlerFields /\ h.c = c /\ h.lock = lock /\ h.called = <<>>
    BY HandlerFacts
  <2> HIDE DEF h, c
  <2>2. TimedOut(h, Range(h.c.tasks), {u \in Adhoc : h.c.startBy[u] = 0}, CheckTaskStartTimeout(h))
    BY <1>1, <2>1, TimeoutEffect
  <2>3. CheckTaskStartTimeout(h) = g
    BY DEF h
  <2> HIDE DEF g
  <2>4. TimedOut(h, X, O, g)
    BY <2>1, <2>2, <2>3
  <2> HIDE DEF X, O
  <2> QED BY <2>1, <2>4 DEF TimedOut
<1>3. FinishFrom(calls, g, i) /\ asked' = asked /\ unprompted' = unprompted
  BY DEF StartTimerExpires, Finish
<1> HIDE DEF g
<1>4. /\ DOMAIN d = MasterFields /\ d.posted = c.posted /\ d.bound = c.bound
      /\ d.isOnline = c.isOnline /\ d.active = c.active /\ d.responseTimer = c.responseTimer
      /\ d.tstate = c.tstate /\ d.solSeq = c.solSeq
      /\ d.scheduleTimer = c.scheduleTimer /\ d.isSending = c.isSending
  BY <1>1, <1>2 DEF Same
<1>5. Range(d.tasks) = X \ O
  BY <1>2 DEF Lists
<1> HIDE DEF X, O, d
<1>6. O \subseteq Adhoc
  BY DEF O
<1>7. Expirations(d.expiration, Range(d.tasks))
  BY <1>1, <1>2, <1>5 DEF Expirations
<1>8. Mine(d) \ Adhoc = Mine(c) \ Adhoc /\ Mine(d) \subseteq Mine(c)
      /\ Mine(c) \ Mine(d) = X \cap O
  BY <1>1, <1>4, <1>5, <1>6 DEF Mine, X
<1>9. Sane(d) /\ Timed(d)
  <2>1. Mine(d) \ Adhoc = Due(d) /\ (~d.isOnline => Mine(d) = {})
    BY <1>1, <1>4, <1>8 DEF Sane, Due
  <2>2. /\ d.isSending \in BOOLEAN /\ d.responseTimer \in BOOLEAN /\ d.solSeq \in Seqs
        /\ d.scheduleTimer \in Nat /\ d.posted \in Nat /\ d.isOnline \in BOOLEAN
        /\ d.tstate \in {"IDLE", "TASK_READY", "WAIT_FOR_RESPONSE"}
        /\ Lists(d.bound, Range(d.bound)) /\ Range(d.bound) \subseteq Polls
        /\ d.active \in Task \cup {None}
    BY <1>1, <1>4 DEF Sane
  <2>3. d.active \notin Range(d.tasks) /\ Lists(d.tasks, Range(d.tasks))
    BY <1>1, <1>2, <1>4, <1>5
  <2>4. Sane(d)
    BY <1>4, <1>7, <2>1, <2>2, <2>3 DEF Sane
  <2> QED BY <1>1, <1>4, <2>4 DEF Timed
<1>10. ASSUME Seen(c) PROVE Seen(d)
  <2> SUFFICES ASSUME c.isOnline, c.tstate = "IDLE", ~c.isSending,
                      NEW t \in X \ O, First(d.expiration, X \ O, t), TaskEnabled(d.expiration, t)
               PROVE  c.posted > 0 \/ c.scheduleTimer <= d.expiration[t]
    BY <1>4, <1>5 DEF Seen
  <2> DEFINE e == c.expiration
             f == GetNextTask(e, c.tasks)
  <2>1. X \subseteq Task /\ e \in [Task -> Nat] /\ \A u \in X \ O : d.expiration[u] = e[u]
    BY <1>1, <1>2 DEF Expirations
  <2>2. First(e, X, f)
    <3>1. c.tasks # <<>>
      BY <1>1, ListsNone
    <3> HIDE DEF c
    <3> QED BY <1>1, <3>1, NextIsFirst
  <2> HIDE DEF f
  <2>3. TaskEnabled(e, f) /\ f \in X /\ LosesTo(e, t, f)
    BY <2>1, <2>2 DEF First, LosesTo, TaskEnabled
  <2>4. c.posted > 0 \/ c.scheduleTimer <= e[f]
    BY <1>10, <2>2, <2>3 DEF Seen, X
  <2>5. e[f] <= e[t]
    <3>1. CASE f \in O
      <4>1. e[f] = 0
        BY <1>1, <1>6, <2>3, <3>1 DEF Expirations
      <4> QED BY <2>1, <4>1
    <3>2. CASE f \notin O
      <4>1. LosesTo(d.expiration, f, t)
        BY <2>3, <3>2 DEF First
      <4>2. LosesTo(e, f, t)
        BY <2>1, <2>3, <3>2, <4>1 DEF LosesTo, TaskEnabled
      <4>3. Priority(f) \in Nat /\ Priority(t) \in Nat
        BY <2>1, <2>3, TaskFacts
      <4>4. TaskEnabled(e, t)
        BY <2>1 DEF TaskEnabled
      <4> QED BY <2>3, <4>2, <4>3, <4>4 DEF LosesTo
    <3> QED BY <3>1, <3>2
  <2>6. c.scheduleTimer \in Nat /\ e[f] \in Nat /\ e[t] \in Nat
    BY <1>1, <2>1, <2>3 DEF Sane
  <2> QED BY <2>1, <2>4, <2>5, <2>6
<1>11. g.c = d
  BY DEF d
<1>12. Ok(g) /\ (i \notin unprompted' => Seen(g.c))
  BY <1>2, <1>3, <1>9, <1>10, <1>11 DEF Ok, Scheduled
<1>13. Keeps(Mine(c), g) /\ Drops(Mine(c), g)
  <2>1. \A t : Count(g, t) = IF t \in X \cap O THEN 1 ELSE 0
    BY <1>2, ListCounts
  <2> QED BY <1>1, <1>8, <1>11, <2>1 DEF Keeps, Drops
<1>14. g.c.posted >= c.posted
  BY <1>1, <1>4, <1>11
<1> QED BY <1>2, <1>3, <1>4, <1>11, <1>12, <1>13, <1>14, QuietServes

----------------------------------------------------------------------------
(* The lower layer goes down.                                               *)

\* The master is left with no task, and only the active one is told.
LEMMA DownEffect ==
    ASSUME NEW h, DOMAIN h = HandlerFields, Sane(h.c), h.called = <<>>
    PROVE  LET g == LowerLayerDown(h)
           IN  /\ DOMAIN g = HandlerFields /\ g.lock = OnLayerDown(h.lock) /\ g.sent = h.sent
               /\ Ok(g) /\ ~g.c.isOnline /\ g.c.active = None /\ g.c.tstate = "IDLE"
               /\ Mine(g.c) = {}
               /\ g.called = IF h.c.active = None THEN <<>> ELSE <<h.c.active>>
<1> DEFINE t == h.c.active
           k == IF t # None THEN Notify(h, t, "FAILURE_NO_COMMS") ELSE h
           d == [k.c EXCEPT !.tasks = <<>>, !.active = None, !.tstate = "IDLE",
                            !.responseTimer = FALSE, !.startTimer = Never,
                            !.scheduleTimer = Infinite, !.solSeq = 0,
                            !.isOnline = FALSE, !.isSending = FALSE]
           g == LowerLayerDown(h)
<1>1. /\ DOMAIN h.c = MasterFields /\ h.c.expiration \in [Task -> Nat] /\ t \in Task \cup {None}
      /\ h.c.posted \in Nat /\ Lists(h.c.bound, Range(h.c.bound)) /\ Range(h.c.bound) \subseteq Polls
  BY DEF Sane, Expirations
<1>2. /\ Same(h, k, {"c", "called"}) /\ Same(h.c, k.c, {"expiration"})
      /\ k.called = IF t = None THEN <<>> ELSE <<t>>
      /\ k.c.expiration \in [Task -> Nat]
  <2>1. CASE t = None
    BY <1>1, <2>1 DEF Same
  <2>2. CASE t # None
    <3> DEFINE n == Notify(h, t, "FAILURE_NO_COMMS")
    <3>1. /\ Same(h, n, {"c", "called"}) /\ Same(h.c, n.c, {"expiration"})
          /\ n.called = Append(h.called, t) /\ n.c.expiration \in [Task -> Nat]
      BY <1>1, <2>2, NotifyEffect
    <3>2. k = n
      BY <2>2
    <3> HIDE DEF n, k
    <3> QED BY <2>2, <3>1, <3>2
  <2> QED BY <2>1, <2>2
<1>3. g = [k EXCEPT !.c = d, !.lock = OnLayerDown(k.lock)]
  BY DEF LowerLayerDown
<1> HIDE DEF k
<1>4. /\ DOMAIN k = HandlerFields /\ k.lock = h.lock /\ k.sent = h.sent
      /\ DOMAIN k.c = MasterFields /\ k.c.posted = h.c.posted /\ k.c.bound = h.c.bound
  BY <1>1, <1>2 DEF Same
<1>5. /\ DOMAIN d = MasterFields /\ d.tasks = <<>> /\ d.active = None /\ d.tstate = "IDLE"
      /\ d.responseTimer = FALSE /\ d.scheduleTimer = Infinite /\ d.solSeq = 0
      /\ d.isOnline = FALSE /\ d.isSending = FALSE /\ d.posted = h.c.posted
      /\ d.bound = h.c.bound /\ d.expiration = k.c.expiration
  BY <1>4
<1> HIDE DEF d
<1>6. /\ DOMAIN g = HandlerFields /\ g.c = d /\ g.lock = OnLayerDown(h.lock) /\ g.sent = h.sent
      /\ g.called = k.called
  BY <1>3, <1>4
<1>7. Range(d.tasks) = {} /\ Lists(d.tasks, {})
  BY <1>5, ListsNone DEF Range
<1>8. Mine(d) = {} /\ Due(d) = {}
  BY <1>5, <1>7 DEF Mine, Due
<1>9. 0 \in Seqs /\ Infinite \in Nat
  BY MasterAssumption, TaskClasses DEF Seqs
<1>10. Sane(d) /\ Timed(d)
  BY <1>1, <1>2, <1>5, <1>7, <1>8, <1>9 DEF Sane, Timed, Expirations
<1> HIDE DEF g
<1> QED BY <1>2, <1>5, <1>6, <1>8, <1>10 DEF Ok, g

\* The lock is reset.
LEMMA DownInOrder ==
    ASSUME NEW l, InOrder(l)
    PROVE  LET m == OnLayerDown(l)
           IN  /\ InOrder(m) /\ m.known = {} /\ m.active = None
               /\ Range(m.queue) = {} /\ m.woken = l.woken
<1> DEFINE m == OnLayerDown(l)
<1>1. Range(<<>>) = {} /\ Lists(<<>>, {})
  BY ListsNone DEF Range
<1>2. CASE ~l.isOnline
  <2>1. m = l
    BY <1>2 DEF OnLayerDown
  <2> HIDE DEF m
  <2>2. l.known = {} /\ l.active = None /\ Range(l.queue) = {}
    BY <1>2 DEF InOrder
  <2> QED BY <2>1, <2>2 DEF m
<1>3. CASE l.isOnline
  <2>1. m = [l EXCEPT !.isOnline = FALSE, !.active = None, !.queue = <<>>, !.known = {}]
    BY <1>3 DEF OnLayerDown
  <2>2. /\ DOMAIN m = {"isOnline", "active", "queue", "woken", "known"}
        /\ m.isOnline = FALSE /\ m.active = None /\ m.queue = <<>> /\ m.woken = l.woken
        /\ m.known = {}
    BY <2>1 DEF InOrder
  <2> HIDE DEF m
  <2>3. InOrder(m)
    BY <1>1, <2>2 DEF InOrder
  <2> QED BY <1>1, <2>2, <2>3 DEF m
<1> QED BY <1>2, <1>3 DEF InOrder

\* One master is disabled.
LEMMA MasterDownServes ==
    ASSUME Scheduled, NEW i \in Masters, MasterDown(i) PROVE Served(i)
<1> DEFINE c == master[i]
           h == Handler(i)
           g == LowerLayerDown(h)
<1>1. /\ DOMAIN h = HandlerFields /\ h.c = c /\ h.called = <<>> /\ Sane(c) /\ h.lock = lock
  BY HandlerFacts
<1>2. /\ DOMAIN g = HandlerFields /\ g.lock = OnLayerDown(lock)
      /\ Ok(g) /\ ~g.c.isOnline /\ g.c.active = None /\ g.c.tstate = "IDLE"
      /\ Mine(g.c) = {}
      /\ g.called = IF c.active = None THEN <<>> ELSE <<c.active>>
  <2> HIDE DEF h, c
  <2> QED BY <1>1, DownEffect
<1>3. /\ SingleDisable /\ c.isOnline /\ FinishFrom(calls, g, i)
      /\ asked' = [asked EXCEPT ![i] = Nothing] /\ unprompted' = unprompted \ {i}
  BY DEF MasterDown, Finish
<1> HIDE DEF g
<1>4. Given(i, Mine(c), calls)
  BY DEF Given
<1>5. Keeps(Mine(c), g)
  <2>1. \A u : u \notin Mine(c) => Count(g, u) = 0
    BY <1>2, CountFacts DEF Mine
  <2> QED BY <1>2, <2>1 DEF Keeps
<1>6. Seen(g.c) /\ StartsFirst(i, g)
  BY <1>2 DEF Seen, StartsFirst
<1>7. /\ DOMAIN asked' = Masters /\ asked'[i] = Nothing
      /\ \A j \in Masters \ {i} : asked'[j] = asked[j]
  BY <1>3 DEF Scheduled
<1>8. Late(asked'[i], g.c)
  BY <1>7 DEF Nothing, Late
<1> HIDE DEF h
<1>9. ASSUME Locked PROVE KeepsLock(i, g)
  <2>1. g.lock = OnLayerDown(lock) /\ InOrder(lock)
    BY <1>2, <1>9 DEF Locked
  <2>2. /\ InOrder(g.lock) /\ g.lock.known = {} /\ g.lock.active = None
        /\ Range(g.lock.queue) = {}
    BY <2>1, DownInOrder
  <2> QED BY <1>2, <2>2, MastersAssumption DEF KeepsLock, Placed, Ready
<1>10. Serves(i, Mine(c), calls, g)
  BY <1>2, <1>3, <1>4, <1>5, <1>6, <1>7, <1>8, <1>9 DEF Serves
<1> QED BY <1>10 DEF Served

----------------------------------------------------------------------------
(* The response timeout, and responses.                                     *)

\* A handler that takes a response, or none, serves the master; the
\* indications are looked at in the end.
LEMMA OutcomeServes ==
    ASSUME Scheduled, NEW i \in Masters, NEW k, Outcome(Handler(i), k, i),
           NEW g, DOMAIN g = HandlerFields, Same(k, g, {"c"}), Same(k.c, g.c, {"expiration"}),
           Sane(g.c), master[i].active = None => g.c.active = None,
           FinishFrom(calls, g, i),
           unprompted \ {i} \subseteq unprompted', i \notin unprompted' => Seen(g.c),
           DOMAIN asked' = Masters, \A j \in Masters \ {i} : asked'[j] = asked[j],
           MaxFragments < SeqModulus /\ Late(asked[i], master[i]) => Late(asked'[i], g.c)
    PROVE  Served(i)
<1> DEFINE h == Handler(i)
           c == master[i]
<1>1. /\ h.c = c /\ h.lock = lock /\ h.called = <<>>
  BY HandlerFacts
<1> HIDE DEF h
<1>2. /\ Ok(k) /\ Tells(h, k) /\ k.c.isOnline = c.isOnline
      /\ LockFine(h, i) /\ Ready(h.lock, i, h.c) => Passes(h, k, i)
  BY <1>1 DEF Outcome, h
<1>3. DOMAIN k = HandlerFields /\ DOMAIN k.c = MasterFields /\ Timed(k.c)
  BY <1>2 DEF Ok, Sane
<1>4. /\ g.lock = k.lock /\ g.called = k.called
      /\ g.c.isOnline = k.c.isOnline /\ g.c.tstate = k.c.tstate /\ g.c.active = k.c.active
      /\ g.c.tasks = k.c.tasks /\ g.c.isSending = k.c.isSending /\ g.c.posted = k.c.posted
      /\ g.c.responseTimer = k.c.responseTimer
  BY <1>3 DEF Same
<1>5. Ok(g)
  BY <1>3, <1>4 DEF Ok, Timed
<1>6. Keeps(Mine(c), g) /\ Drops(Mine(c), g)
  <2>1. Mine(g.c) = Mine(k.c)
    BY <1>4 DEF Mine
  <2>2. Tells(h, g)
    BY <1>2, <1>4, <2>1 DEF Tells
  <2> HIDE DEF c
  <2> QED BY <1>1, <2>2, TellsCounts
<1>7. ASSUME Locked PROVE KeepsLock(i, g)
  <2>1. LockFine(h, i) /\ Ready(h.lock, i, h.c)
    BY <1>1, <1>7 DEF Locked, h
  <2>2. Passes(h, k, i)
    BY <1>2, <2>1
  <2> QED BY <1>1, <1>4, <2>2 DEF Passes, KeepsLock, Placed, Ready
<1>8. Given(i, Mine(c), calls) /\ StartsFirst(i, g)
  BY DEF Given, StartsFirst
<1>9. Serves(i, Mine(c), calls, g)
  BY <1>5, <1>6, <1>7, <1>8 DEF Serves
<1> QED BY <1>9 DEF Served

\* A response does not come in time: as the end of a task that took a response,
\* but for what the task is told.
LEMMA TimeoutAccepts ==
    ASSUME NEW h, Ok(h), h.c.tstate = "WAIT_FOR_RESPONSE", NEW i
    PROVE  LET g == OnResponseTimeout(h, i)
           IN  /\ Accepts(h, g, i, [fin |-> TRUE])
               /\ g.c.tstate = "IDLE" /\ g.c.active = None /\ g.sent = h.sent
<1> DEFINE t == h.c.active
           d == [h.c EXCEPT !.responseTimer = FALSE, !.solSeq = IncrSeq(@)]
           b == [h EXCEPT !.c = d]
           k == Notify(b, t, "FAILURE_RESPONSE_TIMEOUT")
           g == CompleteActiveTask(k, i)
<1>1. DOMAIN h = HandlerFields /\ Sane(h.c) /\ Timed(h.c) /\ DOMAIN h.c = MasterFields
  BY DEF Ok, Sane
<1>2. t \in Task \ Range(h.c.tasks) /\ t # None /\ h.c.isOnline
  BY <1>1 DEF Timed, Sane
<1>3. OnResponseTimeout(h, i) = g
  <2>1. b = [h EXCEPT !.c.responseTimer = FALSE, !.c.solSeq = IncrSeq(@)]
    BY <1>1
  <2> HIDE DEF b
  <2> QED BY <2>1 DEF OnResponseTimeout
<1>4. /\ Same(h.c, d, {"responseTimer", "solSeq"})
      /\ d.responseTimer = FALSE /\ d.solSeq = IncrSeq(h.c.solSeq)
  BY <1>1 DEF Same
<1>5. IncrSeq(h.c.solSeq) \in Seqs
  BY <1>1, IncrSeqIsNext DEF Sane
<1> HIDE DEF d
<1>6. Sane(d) /\ DOMAIN d = MasterFields /\ d.expiration \in [Task -> Nat] /\ d.tasks = h.c.tasks
  <2>1. Same(h.c, d, FreeFields \cup TypedFields)
    BY <1>4 DEF Same, FreeFields, TypedFields
  <2>2. Typed(d)
    BY <1>1, <1>4, <1>5 DEF Typed, Same, Sane
  <2>3. Sane(d)
    BY <1>1, <2>1, <2>2, SameSane
  <2> QED BY <1>1, <1>4, <2>3 DEF Sane, Expirations, Same
<1>7. /\ DOMAIN b = HandlerFields /\ b.c = d /\ b.lock = h.lock /\ b.sent = h.sent
      /\ b.called = h.called
  BY <1>1
<1> HIDE DEF b
<1>8. /\ Same(b, k, {"c", "called"}) /\ Same(b.c, k.c, {"expiration"})
      /\ k.called = Append(b.called, t) /\ k.c.expiration \in [Task -> Nat]
      /\ \A u \in Task : u # t => k.c.expiration[u] = b.c.expiration[u]
  BY <1>2, <1>6, <1>7, NotifyEffect
<1> HIDE DEF k
<1>9. Sane(k.c)
  <2>1. t \in Task \ Range(d.tasks)
    BY <1>2, <1>6
  <2>2. /\ Same(d, k.c, {"expiration"}) /\ k.c.expiration \in [Task -> Nat]
        /\ \A u \in Task : u # t => k.c.expiration[u] = d.expiration[u]
    BY <1>7, <1>8
  <2> QED BY <1>6, <2>1, <2>2, NotifySane
<1>10. /\ DOMAIN k = HandlerFields /\ k.lock = h.lock /\ k.sent = h.sent
       /\ k.c.active = t /\ k.c.isOnline = h.c.isOnline /\ ~k.c.responseTimer
       /\ k.c.solSeq = IncrSeq(h.c.solSeq) /\ k.called = Append(h.called, t)
  BY <1>1, <1>4, <1>6, <1>7, <1>8 DEF Same
<1>11. Takes(h, k)
  <2>1. Same(h, k, {"c", "called"})
    BY <1>1, <1>10 DEF Same
  <2>2. Same(h.c, k.c, {"responseTimer", "solSeq", "step", "isSending", "confirmQueue",
                        "expiration"})
    BY <1>1, <1>4, <1>6, <1>7, <1>8 DEF Same
  <2> QED BY <1>9, <1>10, <2>1, <2>2 DEF Takes
<1>12. Ends(k, g, i, k.lock) /\ g.called = k.called
  BY <1>2, <1>9, <1>10, CompleteEffect
<1> HIDE DEF g
<1>13. Ends(k, g, i, h.lock)
  BY <1>10, <1>12
<1>14. g.c.tstate = "IDLE" /\ g.c.active = None /\ g.sent = h.sent
  BY <1>10, <1>13 DEF Ends
<1> HIDE DEF t
<1>15. Accepts(h, g, i, [fin |-> TRUE])
  BY <1>10, <1>11, <1>12, <1>13 DEF Accepts, t
<1> QED BY <1>3, <1>14, <1>15

\* The response timer runs out.
LEMMA ResponseTimeoutServes ==
    ASSUME Scheduled, NEW i \in Masters, ResponseTimeout(i) PROVE Served(i)
<1> DEFINE c == master[i]
           h == Handler(i)
           g == OnResponseTimeout(h, i)
           r == [fin |-> TRUE]
<1>1. /\ Ok(h) /\ h.c = c /\ h.lock = lock /\ h.sent = FALSE /\ h.called = <<>>
      /\ Sane(c) /\ Timed(c) /\ DOMAIN h = HandlerFields
  BY HandlerFacts
<1>2. /\ c.responseTimer /\ FinishFrom(calls, g, i)
      /\ asked' = [asked EXCEPT ![i] = [Nothing EXCEPT !.late = c.solSeq]]
      /\ unprompted' = unprompted
  BY DEF ResponseTimeout, Finish
<1>3. h.c.tstate = "WAIT_FOR_RESPONSE" /\ c.active # None
  BY <1>1, <1>2 DEF Timed
<1> HIDE DEF h, c, r
<1>4. /\ Accepts(h, g, i, r)
      /\ g.c.tstate = "IDLE" /\ g.c.active = None
  BY <1>1, <1>3, TimeoutAccepts DEF r
<1> HIDE DEF g
<1>5. Outcome(h, g, i) /\ Seen(g.c) /\ g.c.solSeq = IncrSeq(c.solSeq)
  <2>1. Outcome(h, g, i) /\ Seen(g.c) /\ g.c.solSeq = IncrSeq(h.c.solSeq)
    BY <1>1, <1>3, <1>4, AcceptOutcome
  <2> QED BY <1>1, <2>1
<1>6. /\ DOMAIN asked' = Masters /\ asked'[i] = [fragment |-> None, late |-> c.solSeq, again |-> FALSE]
      /\ \A j \in Masters \ {i} : asked'[j] = asked[j]
  BY <1>2 DEF Scheduled, Nothing
<1>7. Late(asked'[i], g.c)
  <2>1. c.solSeq \in Seqs /\ IncrSeq(c.solSeq) = Plus(c.solSeq, 1)
    BY <1>1, IncrSeqIsNext DEF Sane
  <2> QED BY <1>4, <1>5, <1>6, <2>1 DEF Late
<1>8. DOMAIN g = HandlerFields /\ Sane(g.c) /\ Same(g, g, {"c"}) /\ Same(g.c, g.c, {"expiration"})
  BY <1>5 DEF Outcome, Ok, Same
<1> QED BY <1>2, <1>4, <1>5, <1>6, <1>7, <1>8, OutcomeServes DEF h

\* What a response comes to, before its indications are looked at.
Taken(h, i, r) == IF Expects(h.c, r) THEN AcceptResponse(h, i, r) ELSE h

\* The active task takes the response, or nothing does, and then the
\* indications are processed.
LEMMA ResponseEffect ==
    ASSUME Scheduled, NEW i \in Masters, NEW r
    PROVE  LET h == Handler(i)
               k == Taken(h, i, r)
               g == ProcessResponse(h, i, r)
           IN  /\ Outcome(h, k, i)
               /\ DOMAIN g = HandlerFields /\ Same(k, g, {"c"}) /\ Same(k.c, g.c, {"expiration"})
               /\ Sane(g.c)
               /\ master[i].active = None => g.c.active = None
               /\ DemandedBy(r.iin) = {} /\ i \notin unprompted => Seen(g.c)
               /\ Expects(master[i], r) =>
                     /\ master[i].active # None
                     /\ g.c.solSeq = IncrSeq(master[i].solSeq)
                     /\ g.c.tstate = "WAIT_FOR_RESPONSE" => g.sent \/ ~r.fin
               /\ ~Expects(master[i], r) =>
                     /\ ~g.sent /\ g.c.solSeq = master[i].solSeq
                     /\ g.c.tstate = master[i].tstate
<1> DEFINE c == master[i]
           h == Handler(i)
           k == Taken(h, i, r)
           g == ProcessResponse(h, i, r)
<1>1. /\ Ok(h) /\ h.c = c /\ h.lock = lock /\ h.sent = FALSE /\ h.called = <<>>
      /\ Sane(c) /\ Timed(c) /\ DOMAIN h = HandlerFields /\ DOMAIN c = MasterFields
  BY HandlerFacts
<1>2. Seen(c) \/ i \in unprompted
  BY DEF Scheduled
<1> HIDE DEF c, h
<1>3. g = [k EXCEPT !.c = ProcessIIN(k.c, r.iin)]
  BY DEF ProcessResponse, Taken
<1>4. CASE Expects(c, r)
  <2>1. k = AcceptResponse(h, i, r) /\ h.c.tstate = "WAIT_FOR_RESPONSE"
    BY <1>1, <1>4 DEF Taken, Expects
  <2> HIDE DEF k, g
  <2>2. Accepts(h, k, i, r)
    BY <1>1, <2>1, AcceptEffect
  <2>3. /\ Outcome(h, k, i) /\ Seen(k.c) /\ k.c.solSeq = IncrSeq(h.c.solSeq)
        /\ k.c.tstate = "WAIT_FOR_RESPONSE" => k.sent \/ ~r.fin
    BY <1>1, <2>1, <2>2, AcceptOutcome
  <2>4. Ok(k) /\ DOMAIN k = HandlerFields /\ Sane(k.c) /\ DOMAIN k.c = MasterFields
    BY <2>3 DEF Outcome, Ok, Sane
  <2> DEFINE b == k.c
             e == ProcessIIN(b, r.iin)
  <2>5. /\ Sane(e) /\ Same(b, e, {"expiration"})
        /\ DemandedBy(r.iin) = {} => e.expiration = b.expiration
    BY <2>4, ProcessIINEffect
  <2> HIDE DEF e
  <2>6. DOMAIN g = HandlerFields /\ g.c = e /\ g.sent = k.sent /\ Same(k, g, {"c"})
    BY <1>3, <2>4 DEF Same, e
  <2>7. /\ e.tasks = b.tasks /\ e.isOnline = b.isOnline /\ e.tstate = b.tstate
        /\ e.isSending = b.isSending /\ e.posted = b.posted /\ e.scheduleTimer = b.scheduleTimer
        /\ e.solSeq = b.solSeq
    BY <2>4, <2>5 DEF Same
  <2>8. DemandedBy(r.iin) = {} => Seen(e)
    BY <2>3, <2>5, <2>7 DEF Seen
  <2>9. c.active # None
    BY <1>1, <2>1 DEF Timed
  <2> QED BY <1>1, <1>4, <2>3, <2>5, <2>6, <2>7, <2>8, <2>9 DEF c, h, k, g
<1>5. CASE ~Expects(c, r)
  <2>1. k = h
    BY <1>1, <1>5 DEF Taken
  <2> HIDE DEF k, g
  <2>2. Outcome(h, h, i)
    <3>1. Tells(h, h)
      BY DEF Tells
    <3> QED BY <1>1, <3>1, LockStays DEF Outcome
  <2> DEFINE e == ProcessIIN(c, r.iin)
  <2>3. /\ Sane(e) /\ Same(c, e, {"expiration"})
        /\ DemandedBy(r.iin) = {} => e.expiration = c.expiration
    BY <1>1, ProcessIINEffect
  <2> HIDE DEF e
  <2>4. /\ DOMAIN g = HandlerFields /\ g.c = e /\ g.sent = FALSE /\ Same(h, g, {"c"})
    BY <1>1, <1>3, <2>1 DEF Same, e
  <2>5. /\ e.tasks = c.tasks /\ e.isOnline = c.isOnline /\ e.tstate = c.tstate
        /\ e.isSending = c.isSending /\ e.posted = c.posted /\ e.scheduleTimer = c.scheduleTimer
        /\ e.solSeq = c.solSeq /\ e.active = c.active
    BY <1>1, <2>3 DEF Same
  <2>6. DemandedBy(r.iin) = {} /\ i \notin unprompted => Seen(e)
    BY <1>2, <2>3, <2>5 DEF Seen
  <2> QED BY <1>1, <1>5, <2>1, <2>2, <2>3, <2>4, <2>5, <2>6 DEF c, h, k, g
<1> QED BY <1>4, <1>5

\* The next fragment of a response: the task goes on, or sends again, or ends.
LEMMA LateAfterFragment ==
    ASSUME MaxFragments < SeqModulus, NEW a, NEW c, Late(a, c), c.tstate = "WAIT_FOR_RESPONSE",
           c.solSeq \in Seqs,
           NEW b, DOMAIN b = {"fragment", "late", "again"}, b.late = a.late, b.again = a.again,
           NEW fin, ~fin => b.fragment = a.fragment + 1 /\ b.fragment < MaxFragments,
           NEW d, d.solSeq = IncrSeq(c.solSeq), d.tstate = "WAIT_FOR_RESPONSE" => ~fin
    PROVE  Late(b, d)
<1>1. a.late \in Seqs \cup {None} /\ a.again \in BOOLEAN /\ (a.late # None => a.again)
  BY DEF Late
<1>2. ASSUME b.late # None, d.tstate = "WAIT_FOR_RESPONSE"
      PROVE  b.fragment \in 0 .. SeqModulus - 2 /\ d.solSeq = Plus(b.late, b.fragment + 1)
  <2>1. ~fin /\ a.late \in Seqs /\ a.again
    BY <1>1, <1>2
  <2>2. a.fragment \in 0 .. SeqModulus - 2 /\ c.solSeq = Plus(a.late, a.fragment + 1)
    BY <1>1, <1>2, <2>1 DEF Late
  <2>3. MaxFragments \in Nat /\ SeqModulus \in Nat
    BY MasterAssumption
  <2>4. b.fragment = a.fragment + 1 /\ b.fragment < MaxFragments
    BY <2>1
  <2>5. b.fragment \in 0 .. SeqModulus - 2 /\ b.fragment + 1 = a.fragment + 2
    BY <2>2, <2>3, <2>4
  <2>6. Plus(Plus(a.late, a.fragment + 1), 1) = Plus(a.late, a.fragment + 2)
    BY <2>1, <2>2, PlusFacts
  <2>7. d.solSeq = Plus(c.solSeq, 1)
    BY IncrSeqIsNext
  <2> QED BY <2>2, <2>5, <2>6, <2>7
<1> QED BY <1>1, <1>2 DEF Late

\* A fragment of the response to the latest request.
LEMMA ReceiveServes ==
    ASSUME Scheduled, NEW i \in Masters, NEW reply, Receive(i, reply) PROVE Served(i)
<1> DEFINE c == master[i]
           h == Handler(i)
           a == asked[i]
           n == a.fragment
           r == Response(reply, n = 0, c.solSeq)
           k == Taken(h, i, r)
           g == ProcessResponse(h, i, r)
           b == [a EXCEPT !.fragment = IF reply.fin THEN None ELSE n + 1]
<1>1. /\ c.tstate = "WAIT_FOR_RESPONSE" /\ (~reply.fin => n + 1 < MaxFragments)
      /\ FinishFrom(calls, g, i) /\ Hear(g, i, b)
      /\ unprompted' = IF DemandedBy(r.iin) # {} THEN unprompted \cup {i} ELSE unprompted
  <2> HIDE DEF g
  <2> QED BY DEF Receive, Finish, g
<1>2. Expects(c, r) /\ r.fin = reply.fin
  BY <1>1 DEF Expects, Response
<1> HIDE DEF r
<1>3. /\ Outcome(h, k, i)
      /\ DOMAIN g = HandlerFields /\ Same(k, g, {"c"}) /\ Same(k.c, g.c, {"expiration"})
      /\ Sane(g.c) /\ c.active # None
      /\ DemandedBy(r.iin) = {} /\ i \notin unprompted => Seen(g.c)
      /\ g.c.solSeq = IncrSeq(c.solSeq)
      /\ g.c.tstate = "WAIT_FOR_RESPONSE" => g.sent \/ ~r.fin
  BY <1>2, ResponseEffect
<1> HIDE DEF k, g, b
<1>4. unprompted \ {i} \subseteq unprompted' /\ (i \notin unprompted' => Seen(g.c))
  BY <1>1, <1>3
<1>5. /\ DOMAIN asked' = Masters /\ \A j \in Masters \ {i} : asked'[j] = asked[j]
      /\ ~g.sent => asked'[i] = b
      /\ g.sent => asked'[i] =
            [fragment |-> 0, late |-> IF b.again THEN None ELSE b.late,
             again |-> b.late # None /\ ~b.again]
  BY <1>1, HearEffect
<1>6. ASSUME MaxFragments < SeqModulus, Late(a, c) PROVE Late(asked'[i], g.c)
  <2> HIDE DEF c, a
  <2>1. /\ DOMAIN b = {"fragment", "late", "again"} /\ b.late = a.late /\ b.again = a.again
        /\ b.fragment = IF reply.fin THEN None ELSE a.fragment + 1
    BY <1>6 DEF b, Late
  <2>2. CASE ~g.sent
    <3>1. c.solSeq \in Seqs
      BY HandlerFacts DEF Sane, c
    <3>2. ~r.fin => b.fragment = a.fragment + 1 /\ b.fragment < MaxFragments
      BY <1>1, <1>2, <2>1
    <3>3. Late(b, g.c)
      BY <1>1, <1>3, <1>6, <2>1, <2>2, <3>1, <3>2, LateAfterFragment
    <3> QED BY <1>5, <2>2, <3>3
  <2>3. CASE g.sent
    <3>1. b.late # None => b.again
      BY <1>1, <1>6, <2>1 DEF Late
    <3>2. asked'[i] = [fragment |-> 0, late |-> None, again |-> FALSE]
      BY <1>5, <1>6, <2>1, <2>3, <3>1 DEF Late
    <3> QED BY <3>2 DEF Late
  <2> QED BY <2>2, <2>3
<1> QED BY <1>1, <1>3, <1>4, <1>5, <1>6, OutcomeServes

\* A fragment that is late.
LEMMA ReceiveLateServes ==
    ASSUME Scheduled, NEW i \in Masters, NEW fir, NEW reply, ReceiveLate(i, fir, reply)
    PROVE  Served(i)
<1> DEFINE c == master[i]
           h == Handler(i)
           a == asked[i]
           r == Response(reply, fir, a.late)
           k == Taken(h, i, r)
           g == ProcessResponse(h, i, r)
           b == [a EXCEPT !.late = None, !.again = FALSE]
<1>1. /\ a.late # None
      /\ FinishFrom(calls, g, i) /\ Hear(g, i, b)
      /\ unprompted' = IF DemandedBy(r.iin) # {} THEN unprompted \cup {i} ELSE unprompted
  <2> HIDE DEF g
  <2> QED BY DEF ReceiveLate, Finish, g
<1>2. Expects(c, r) <=> c.tstate = "WAIT_FOR_RESPONSE" /\ a.late = c.solSeq
  BY DEF Expects, Response
<1> HIDE DEF r
<1>3. /\ Outcome(h, k, i)
      /\ DOMAIN g = HandlerFields /\ Same(k, g, {"c"}) /\ Same(k.c, g.c, {"expiration"})
      /\ Sane(g.c)
      /\ c.active = None => g.c.active = None
      /\ DemandedBy(r.iin) = {} /\ i \notin unprompted => Seen(g.c)
      /\ ~Expects(c, r) => ~g.sent
  BY ResponseEffect
<1> HIDE DEF k, g, b
<1>4. unprompted \ {i} \subseteq unprompted' /\ (i \notin unprompted' => Seen(g.c))
  BY <1>1, <1>3
<1>5. /\ DOMAIN asked' = Masters /\ \A j \in Masters \ {i} : asked'[j] = asked[j]
      /\ ~g.sent => asked'[i] = b
  BY <1>1, HearEffect, ZenonT(30)
<1>6. ASSUME MaxFragments < SeqModulus, Late(a, c) PROVE Late(asked'[i], g.c)
  <2> HIDE DEF c, a
  <2>1. ~Expects(c, r)
    <3> SUFFICES ASSUME c.tstate = "WAIT_FOR_RESPONSE", a.late = c.solSeq PROVE FALSE
      BY <1>2
    <3>1. a.late \in Seqs /\ a.fragment \in 0 .. SeqModulus - 2 /\ c.solSeq = Plus(a.late, a.fragment + 1)
      BY <1>1, <1>6 DEF Late
    <3> QED BY <3>1, PlusFacts
  <2>2. asked'[i] = b
    BY <1>3, <1>5, <2>1
  <2>3. DOMAIN b = {"fragment", "late", "again"} /\ b.late = None /\ b.again = FALSE
    BY <1>6 DEF Late, b
  <2> QED BY <2>2, <2>3 DEF Late
<1> QED BY <1>1, <1>3, <1>4, <1>5, <1>6, OutcomeServes

----------------------------------------------------------------------------
(* Time.                                                                    *)

\* A tick keeps what is due, what never comes, and the order of the times.
LEMMA ElapseFacts ==
    ASSUME NEW never \in Nat, never > 0, NEW n \in Nat
    PROVE  /\ Elapse(n, never) \in Nat
           /\ n = 0 => Elapse(n, never) = 0
           /\ Elapse(n, never) < never <=> n < never
           /\ \A m \in Nat : m <= n /\ n < never => Elapse(m, never) <= Elapse(n, never)
BY DEF Elapse

\* What a tick changes.
LEMMA TickEffect ==
    ASSUME Scheduled, Tick, NEW i \in Masters
    PROVE  LET c == master[i]
               d == master'[i]
           IN  /\ Same(c, d, {"expiration", "startBy", "scheduleTimer", "startTimer"})
               /\ d.expiration = [t \in Task |-> Elapse(c.expiration[t], Infinite)]
               /\ d.scheduleTimer = Elapse(c.scheduleTimer, Infinite)
<1> DEFINE c == master[i]
           d == master'[i]
<1>1. DOMAIN c = MasterFields
  BY HandlerFacts
<1>2. d = [c EXCEPT !.expiration = [t \in Task |-> Elapse(@[t], Infinite)],
                    !.startBy = [t \in Adhoc |-> Elapse(@[t], Never)],
                    !.scheduleTimer = Elapse(@, Infinite),
                    !.startTimer = Elapse(@, Never)]
  BY DEF Tick
<1> HIDE DEF c, d
<1>3. DOMAIN d = MasterFields
  BY <1>1, <1>2
<1> QED BY <1>1, <1>2, <1>3 DEF Same, c, d

\* A tick keeps the tasks accounted for.
LEMMA TickScheduled ==
    ASSUME Scheduled, Tick PROVE Scheduled'
<1>1. Infinite \in Nat /\ Infinite > 0
  BY TasksAssumption DEF Infinite
<1>2. DOMAIN master' = Masters /\ DOMAIN asked' = Masters /\ unprompted' = unprompted
  BY DEF Tick, Scheduled
<1>3. ASSUME NEW i \in Masters
      PROVE  Sane(master'[i]) /\ Timed(master'[i]) /\ (Seen(master[i]) => Seen(master'[i]))
  <2> DEFINE c == master[i]
             d == master'[i]
             e == c.expiration
             x == d.expiration
  <2>1. /\ DOMAIN c = MasterFields /\ Sane(c) /\ Timed(c)
        /\ Expirations(e, Range(c.tasks)) /\ c.scheduleTimer \in Nat
    BY HandlerFacts DEF Sane
  <2>2. /\ Same(c, d, {"expiration", "startBy", "scheduleTimer", "startTimer"})
        /\ x = [t \in Task |-> Elapse(e[t], Infinite)]
        /\ d.scheduleTimer = Elapse(c.scheduleTimer, Infinite)
    BY TickEffect
  <2> HIDE DEF c, d
  <2>3. /\ DOMAIN d = MasterFields /\ d.tasks = c.tasks /\ d.bound = c.bound
        /\ d.isOnline = c.isOnline /\ d.active = c.active /\ d.responseTimer = c.responseTimer
        /\ d.isSending = c.isSending /\ d.tstate = c.tstate /\ d.solSeq = c.solSeq
        /\ d.posted = c.posted
    BY <2>1, <2>2 DEF Same
  <2> HIDE DEF e, x
  <2>4. /\ e \in [Task -> Nat] /\ x \in [Task -> Nat]
        /\ \A t \in Task : x[t] = Elapse(e[t], Infinite)
        /\ \A t \in Task : e[t] = 0 => x[t] = 0
    BY <1>1, <2>1, <2>2, ElapseFacts DEF Expirations
  <2>5. Expirations(x, Range(c.tasks))
    BY <2>1, <2>4 DEF Expirations
  <2>6. d.scheduleTimer \in Nat
    BY <1>1, <2>1, <2>2, ElapseFacts
  <2>7. Mine(d) = Mine(c) /\ Due(d) = Due(c)
    BY <2>3 DEF Mine, Due
  <2>8. Sane(d) /\ Timed(d)
    BY <2>1, <2>3, <2>5, <2>6, <2>7 DEF Sane, Timed, x
  <2>9. ASSUME Seen(c) PROVE Seen(d)
    <3> DEFINE X == Range(c.tasks)
               f == GetNextTask(e, c.tasks)
    <3> SUFFICES ASSUME c.isOnline, c.tstate = "IDLE", ~c.isSending,
                        NEW t \in X, First(x, X, t), TaskEnabled(x, t)
                 PROVE  c.posted > 0 \/ d.scheduleTimer <= x[t]
      BY <2>3 DEF Seen, x
    <3>1. Lists(c.tasks, X) /\ c.tasks # <<>>
      BY <2>1, ListsNone DEF Sane
    <3>2. First(e, X, f)
      BY <2>1, <3>1, NextIsFirst
    <3> HIDE DEF f
    <3>3. /\ t \in Task /\ f \in Task /\ f \in X
          /\ Priority(t) \in Nat /\ Priority(f) \in Nat
          /\ e[t] \in Nat /\ e[f] \in Nat
      <4>1. t \in Task /\ f \in Task /\ f \in X
        BY <2>1, <3>2 DEF Expirations, First
      <4> QED BY <2>4, <4>1, TaskFacts
    <3>4. TaskEnabled(e, t)
      BY <1>1, <2>4, <3>3, ElapseFacts DEF TaskEnabled
    <3>5. TaskEnabled(e, f) /\ LosesTo(e, t, f) /\ LosesTo(x, f, t)
      BY <3>2, <3>3, <3>4 DEF First, LosesTo
    <3>6. TaskEnabled(x, f)
      BY <1>1, <2>4, <3>3, <3>5, ElapseFacts DEF TaskEnabled
    <3>7. e[f] <= e[t]
      BY <3>3, <3>4, <3>5, <3>6 DEF LosesTo
    <3>8. x[f] <= x[t]
      BY <1>1, <2>4, <3>3, <3>4, <3>7, ElapseFacts DEF TaskEnabled
    <3>9. c.posted > 0 \/ c.scheduleTimer <= e[f]
      BY <2>9, <3>2, <3>3, <3>5 DEF Seen, e
    <3>10. c.scheduleTimer <= e[f] => d.scheduleTimer <= x[f]
      BY <1>1, <2>1, <2>2, <2>4, <3>3, <3>5, ElapseFacts DEF TaskEnabled
    <3>11. x[f] \in Nat /\ x[t] \in Nat
      BY <2>4, <3>3
    <3> QED BY <2>6, <3>8, <3>9, <3>10, <3>11
  <2> QED BY <2>8, <2>9 DEF c, d
<1> QED BY <1>2, <1>3 DEF Scheduled

\* And everything else.
LEMMA TickKeeps ==
    ASSUME IInv, Tick PROVE IInv'
<1>1. Scheduled
  BY DEF IInv
<1>2. /\ lock' = lock /\ asked' = asked /\ calls' = calls
      /\ \A i \in Masters : Same(master[i], master'[i],
                                 {"expiration", "startBy", "scheduleTimer", "startTimer"})
  BY <1>1, TickEffect DEF Tick
<1>3. \A i \in Masters : DOMAIN master[i] = MasterFields
  BY <1>1, HandlerFacts
<1>4. ASSUME NEW i \in Masters
      PROVE  /\ master'[i].tasks = master[i].tasks /\ master'[i].active = master[i].active
             /\ master'[i].tstate = master[i].tstate /\ master'[i].solSeq = master[i].solSeq
             /\ master'[i].isOnline = master[i].isOnline
             /\ master'[i].isSending = master[i].isSending
             /\ master'[i].posted = master[i].posted
  BY <1>2, <1>3 DEF Same
<1>5. \A i \in Masters : Mine(master'[i]) = Mine(master[i])
  BY <1>4 DEF Mine
<1>6. Untold'
  BY <1>2, <1>5 DEF IInv, Untold
<1>7. ASSUME Numbered PROVE Numbered'
  BY <1>2, <1>4, <1>7 DEF Numbered, Late
<1>8. ASSUME Locked PROVE Locked'
  <2>1. ASSUME NEW i \in Masters PROVE LockFine(Handler(i), i)' /\ Ready(lock, i, master[i])'
    BY <1>2, <1>4, <1>8 DEF Locked, LockFine, Ready, Handler, Placed
  <2> QED BY <1>2, <1>8, <2>1 DEF Locked
<1>9. Scheduled'
  BY <1>1, TickScheduled
<1> QED BY <1>6, <1>7, <1>8, <1>9 DEF IInv

----------------------------------------------------------------------------
(* All masters.                                                             *)

\* The channel goes down, and no master has a task.
LEMMA ChannelDownEffect ==
    ASSUME Scheduled, ChannelDown
    PROVE  /\ DOMAIN master' = Masters
           /\ \A i \in Masters :
                 /\ Sane(master'[i]) /\ Timed(master'[i]) /\ ~master'[i].isOnline
                 /\ Mine(master'[i]) = {} /\ master'[i].active = None
                 /\ master'[i].tstate = "IDLE"
<1> DEFINE down == [i \in Masters |-> IF master[i].isOnline THEN LowerLayerDown(Handler(i))
                                                            ELSE Handler(i)]
<1>1. master' = [i \in Masters |-> Settle(down[i].c)]
  BY DEF ChannelDown
<1>2. ASSUME NEW i \in Masters
      PROVE  /\ Sane(master'[i]) /\ Timed(master'[i]) /\ ~master'[i].isOnline
             /\ Mine(master'[i]) = {} /\ master'[i].active = None
             /\ master'[i].tstate = "IDLE"
  <2> DEFINE h == Handler(i)
             k == IF master[i].isOnline THEN LowerLayerDown(h) ELSE h
             d == k.c
  <2>1. master'[i] = Settle(d)
    BY <1>1
  <2>2. /\ DOMAIN h = HandlerFields /\ Sane(h.c) /\ Timed(h.c) /\ h.called = <<>>
        /\ h.c = master[i]
    BY HandlerFacts
  <2> HIDE DEF h
  <2>3. /\ Sane(d) /\ Timed(d) /\ ~d.isOnline /\ Mine(d) = {}
        /\ d.active = None /\ d.tstate = "IDLE"
    <3>1. CASE master[i].isOnline
      <4>1. k = LowerLayerDown(h)
        BY <3>1
      <4> HIDE DEF k
      <4> QED BY <2>2, <4>1, DownEffect DEF Ok
    <3>2. CASE ~master[i].isOnline
      <4>1. k = h
        BY <3>2
      <4> HIDE DEF k
      <4>2. Mine(h.c) = {} /\ h.c.tstate = "IDLE" /\ h.c.active = None
        BY <2>2, <3>2 DEF Sane, Timed
      <4> QED BY <2>2, <3>2, <4>1, <4>2
    <3> QED BY <3>1, <3>2
  <2> HIDE DEF d
  <2>4. Closes(d, master'[i])
    BY <2>1, <2>3, SettleCloses
  <2>5. Sane(master'[i]) /\ Timed(master'[i])
    BY <2>3, <2>4, ClosesGood
  <2>6. /\ master'[i].isOnline = d.isOnline /\ master'[i].tasks = d.tasks
        /\ master'[i].active = d.active /\ master'[i].tstate = d.tstate
    BY <2>3, <2>4 DEF Closes, Same, Sane
  <2>7. Mine(master'[i]) = Mine(d)
    BY <2>6 DEF Mine
  <2> QED BY <2>3, <2>5, <2>6, <2>7
<1>3. DOMAIN master' = Masters
  BY <1>1
<1> QED BY <1>2, <1>3

\* The invariant holds then.
LEMMA ChannelDownKeeps ==
    ASSUME IInv, ChannelDown PROVE IInv'
<1>1. /\ DOMAIN master' = Masters
      /\ \A i \in Masters :
            /\ Sane(master'[i]) /\ Timed(master'[i]) /\ ~master'[i].isOnline
            /\ Mine(master'[i]) = {} /\ master'[i].tstate = "IDLE"
  BY ChannelDownEffect DEF IInv
<1>2. asked' = [i \in Masters |-> Nothing] /\ DOMAIN calls' = Adhoc /\ lock' = OnLayerDown(lock)
  BY DEF ChannelDown
<1>3. Scheduled'
  BY <1>1, <1>2 DEF Scheduled, Seen
<1>4. Untold'
  BY <1>1, <1>2 DEF Untold
<1>5. Numbered'
  BY <1>2 DEF Numbered, Late, Nothing
<1>6. ASSUME Locked PROVE Locked'
  <2>1. InOrder(lock) /\ lock.woken = {}
    BY <1>6 DEF Locked
  <2>2. /\ InOrder(lock') /\ lock'.known = {} /\ lock'.active = None
        /\ Range(lock'.queue) = {} /\ lock'.woken = {}
    BY <1>2, <2>1, DownInOrder
  <2>3. \A j \in Masters : Placed(lock', j, master'[j]) /\ Ready(lock', j, master'[j])
    BY <2>2, MastersAssumption DEF Placed, Ready
  <2> QED BY <2>2, <2>3 DEF Locked, LockFine, Handler
<1> QED BY <1>3, <1>4, <1>5, <1>6 DEF IInv

\* It holds when the channel has never been up.
LEMMA InitKeeps ==
    ASSUME Init PROVE IInv
<1> DEFINE c == InitialMaster
<1>1. /\ c.expiration \in [Task -> Nat] /\ DOMAIN c = MasterFields
      /\ c.isOnline = FALSE /\ c.isSending = FALSE /\ c.solSeq = 0 /\ c.tstate = "IDLE"
      /\ c.active = None /\ c.tasks = <<>> /\ c.bound = <<>> /\ c.responseTimer = FALSE
      /\ c.scheduleTimer = Infinite /\ c.posted = 0
  BY TaskFacts DEF InitialMaster
<1> HIDE DEF c
<1>2. Range(<<>>) = {} /\ Lists(<<>>, {})
  BY ListsNone DEF Range
<1>3. Mine(c) = {} /\ Due(c) = {}
  BY <1>1, <1>2 DEF Mine, Due
<1>4. 0 \in Seqs /\ Infinite \in Nat
  BY MasterAssumption, TaskClasses DEF Seqs
<1>5. Sane(c) /\ Timed(c) /\ Seen(c)
  <2>1. /\ Range(c.tasks) = {} /\ Lists(c.tasks, Range(c.tasks))
        /\ Range(c.bound) = {} /\ Lists(c.bound, Range(c.bound))
    BY <1>1, <1>2
  <2>2. Expirations(c.expiration, Range(c.tasks)) /\ c.active \in (Task \cup {None}) \ Range(c.tasks)
    BY <1>1, <2>1 DEF Expirations
  <2>3. Range(c.bound) \subseteq Polls /\ Mine(c) \ Adhoc = Due(c)
    BY <1>3, <2>1
  <2>4. Sane(c)
    <3>1. /\ c.isOnline \in BOOLEAN /\ c.isSending \in BOOLEAN /\ c.responseTimer \in BOOLEAN
          /\ c.tstate \in {"IDLE", "TASK_READY", "WAIT_FOR_RESPONSE"}
      BY <1>1
    <3>2. c.solSeq \in Seqs /\ c.posted \in Nat /\ c.scheduleTimer \in Nat
      BY <1>1, <1>4
    <3>3. DOMAIN c = MasterFields
      BY <1>1
    <3> QED BY <1>3, <2>1, <2>2, <2>3, <3>1, <3>2, <3>3 DEF Sane
  <2> QED BY <1>1, <2>4 DEF Timed, Seen
<1>6. /\ master = [i \in Masters |-> c] /\ lock = InitialLock
      /\ asked = [i \in Masters |-> Nothing] /\ calls = [t \in Adhoc |-> 1]
  BY DEF Init, c
<1>7. Scheduled
  BY <1>5, <1>6 DEF Scheduled
<1>8. Untold
  BY <1>3, <1>6 DEF Untold
<1>9. Numbered
  BY <1>6 DEF Numbered, Late, Nothing
<1>10. Locked
  <2>1. /\ DOMAIN lock = {"isOnline", "active", "queue", "woken", "known"}
        /\ lock.isOnline = FALSE /\ lock.active = None /\ lock.queue = <<>> /\ lock.woken = {}
        /\ lock.known = {}
    BY <1>6 DEF InitialLock
  <2>2. InOrder(lock)
    BY <1>2, <2>1 DEF InOrder
  <2>3. \A j \in Masters : None # j
    BY MastersAssumption
  <2>4. \A j \in Masters : Placed(lock, j, c) /\ Ready(lock, j, c)
    BY <1>1, <1>2, <2>1, <2>3 DEF Placed, Ready
  <2> QED BY <1>1, <1>6, <2>1, <2>2, <2>4 DEF Locked, LockFine, Handler
<1> QED BY <1>7, <1>8, <1>9, <1>10 DEF IInv

\* A step is that of one master, or of all.
LEMMA StepServes ==
    ASSUME Scheduled, Untold, Next
    PROVE  ChannelDown \/ Tick \/ \E i \in Masters : Served(i)
<1>1. ASSUME NEW i \in Masters, MasterDown(i) PROVE Served(i)
  BY <1>1, MasterDownServes
<1>2. ASSUME NEW i \in Masters, MasterUp(i) PROVE Served(i)
  BY <1>2, MasterUpServes
<1>3. ASSUME NEW i \in Masters, OnSendResult(i) PROVE Served(i)
  BY <1>3, OnSendResultServes
<1>4. ASSUME NEW i \in Masters, ResponseTimeout(i) PROVE Served(i)
  BY <1>4, ResponseTimeoutServes
<1>5. ASSUME NEW i \in Masters, RunPosted(i) PROVE Served(i)
  BY <1>5, RunPostedServes
<1>6. ASSUME NEW i \in Masters, ScheduleTimerExpires(i) PROVE Served(i)
  BY <1>6, ScheduleTimerExpiresServes
<1>7. ASSUME NEW i \in Masters, StartTimerExpires(i) PROVE Served(i)
  BY <1>7, StartTimerExpiresServes
<1>8. ASSUME NEW i \in Masters, NEW reply \in Replies, Receive(i, reply) PROVE Served(i)
  BY <1>8, ReceiveServes
<1>9. ASSUME NEW i \in Masters, NEW reply \in Replies, NEW fir \in BOOLEAN,
             ReceiveLate(i, fir, reply)
      PROVE  Served(i)
  BY <1>9, ReceiveLateServes
<1>10. ASSUME NEW i \in Masters, NEW r \in Unsolicited, ReceiveUnsolicited(i, r) PROVE Served(i)
  BY <1>10, ReceiveUnsolicitedServes
<1>11. ASSUME NEW i \in Masters, NEW t \in Adhoc, SubmitTask(i, t) PROVE Served(i)
  BY <1>11, SubmitTaskServes
<1>12. ASSUME NEW i \in Masters, NEW p \in Polls, AddScan(i, p) PROVE Served(i)
  BY <1>12, AddScanServes
<1>13. ASSUME NEW i \in Masters, NEW p \in Polls, DemandScan(i, p) PROVE Served(i)
  BY <1>13, DemandScanServes
<1> QED BY <1>1, <1>2, <1>3, <1>4, <1>5, <1>6, <1>7, <1>8, <1>9, <1>10, <1>11, <1>12, <1>13
        DEF Next

\* Every step keeps the invariant.
LEMMA NextKeeps ==
    ASSUME IInv, [Next]_vars PROVE IInv'
<1>1. CASE Next
  <2>1. CASE ChannelDown
    BY <2>1, ChannelDownKeeps
  <2>2. CASE Tick
    BY <2>2, TickKeeps
  <2>3. ASSUME NEW i \in Masters, Served(i) PROVE IInv'
    <3>1. PICK X, before, g : Serves(i, X, before, g)
      BY <2>3 DEF Served
    <3>2. Scheduled' /\ Untold' /\ Locked'
      BY <3>1, ServesScheduled, ServesUntold, ServesLocked DEF IInv
    <3>3. ASSUME MaxFragments < SeqModulus PROVE Numbered'
      BY <3>1, <3>3, ServesNumbered DEF IInv
    <3> QED BY <3>2, <3>3 DEF IInv
  <2> QED BY <1>1, <2>1, <2>2, <2>3, StepServes DEF IInv
<1>2. CASE UNCHANGED vars
  <2>1. /\ master' = master /\ lock' = lock /\ asked' = asked /\ calls' = calls
        /\ unprompted' = unprompted
    BY <1>2 DEF vars
  <2>2. Scheduled' /\ Untold'
    BY <2>1 DEF IInv, Scheduled, Untold
  <2>3. ASSUME Numbered PROVE Numbered'
    BY <2>1, <2>3 DEF Numbered
  <2>4. ASSUME Locked PROVE Locked'
    BY <2>1, <2>4 DEF Locked, Handler
  <2> QED BY <2>2, <2>3, <2>4 DEF IInv
<1> QED BY <1>1, <1>2

----------------------------------------------------------------------------
(* What follows.                                                            *)

\* The invariant: in every state between two handlers the tasks of MContext and
\* MasterScheduler, the callbacks, the sequence numbers and the places in the
\* MultidropTaskLock agree.
THEOREM MasterInvariant == Spec => []IInv
<1>1. Init => IInv
  BY InitKeeps
<1>2. IInv /\ [Next]_vars => IInv'
  BY NextKeeps
<1> QED BY <1>1, <1>2, PTL DEF Spec

\* MContext's tstate, activeTask and response timer agree, and the scheduler has
\* each recurring task once, whatever ended a task and however often the master
\* went down.
THEOREM TasksAreAccounted == Spec => []TasksAccounted
<1>1. ASSUME IInv PROVE TasksAccounted
  <2> SUFFICES ASSUME NEW i \in Masters
               PROVE  LET c    == master[i]
                          kept == IF c.active = None THEN c.tasks ELSE Append(c.tasks, c.active)
                      IN  /\ Timed(c)
                          /\ IsInjective(kept)
                          /\ Range(kept) \ Adhoc = Due(c)
    BY DEF TasksAccounted, WaitIsTimed, TasksKept, Timed, Due
  <2> DEFINE c == master[i]
  <2>1. /\ Timed(c) /\ Lists(c.tasks, Range(c.tasks)) /\ Mine(c) \ Adhoc = Due(c)
        /\ c.active \notin Range(c.tasks)
    BY <1>1, HandlerFacts DEF IInv, Sane
  <2> HIDE DEF c
  <2>2. CASE c.active = None
    BY <2>1, <2>2 DEF Lists, Mine, c
  <2>3. CASE c.active # None
    <3>1. Lists(Append(c.tasks, c.active), Range(c.tasks) \cup {c.active})
      BY <2>1, ListsAppend
    <3> QED BY <2>1, <2>3, <3>1 DEF Lists, Mine, c
  <2> QED BY <2>2, <2>3
<1> QED BY <1>1, MasterInvariant, PTL

\* PostCheckForTask and the schedule timer never leave a task that is due
\* without a look, but after an indication that MContext does not look after.
THEOREM DueIsLookedFor == Spec => []DueIsChecked
<1>1. ASSUME IInv PROVE DueIsChecked
  <2> SUFFICES ASSUME NEW i \in Masters \ unprompted, master[i].isOnline,
                      master[i].tstate = "IDLE", ~master[i].isSending, master[i].tasks # <<>>,
                      TaskEnabled(master[i].expiration,
                                  GetNextTask(master[i].expiration, master[i].tasks))
               PROVE  \/ master[i].posted > 0
                      \/ master[i].scheduleTimer <=
                            master[i].expiration[GetNextTask(master[i].expiration, master[i].tasks)]
    BY DEF DueIsChecked
  <2> DEFINE c == master[i]
             t == GetNextTask(c.expiration, c.tasks)
  <2>1. /\ Seen(c) /\ Lists(c.tasks, Range(c.tasks)) /\ Expirations(c.expiration, Range(c.tasks))
    BY <1>1 DEF IInv, Scheduled, Sane
  <2>2. First(c.expiration, Range(c.tasks), t)
    <3> HIDE DEF c
    <3>1. c.tasks # <<>>
      BY DEF c
    <3> QED BY <2>1, <3>1, NextIsFirst
  <2> HIDE DEF t
  <2>3. t \in Range(c.tasks) /\ TaskEnabled(c.expiration, t)
    BY <2>2 DEF First, t
  <2> QED BY <2>1, <2>2, <2>3 DEF Seen, t
<1> QED BY <1>1, MasterInvariant, PTL

\* OnResponse compares sequence numbers only, which is enough as long as no
\* response has as many fragments as there are numbers.
THEOREM LateResponsesAreIgnored ==
    ASSUME MaxFragments < SeqModulus
    PROVE  Spec => []LateIsIgnored
<1>1. ASSUME IInv PROVE LateIsIgnored
  <2> SUFFICES ASSUME NEW i \in Masters, asked[i].late # None,
                      master[i].tstate = "WAIT_FOR_RESPONSE",
                      asked[i].late = master[i].solSeq
               PROVE  FALSE
    BY DEF LateIsIgnored
  <2> DEFINE a == asked[i]
  <2>1. Late(a, master[i])
    BY <1>1 DEF IInv, Numbered
  <2>2. /\ a.late \in Seqs /\ a.fragment \in 0 .. SeqModulus - 2
        /\ master[i].solSeq = Plus(a.late, a.fragment + 1)
    BY <2>1 DEF Late
  <2> QED BY <2>2, PlusFacts
<1> QED BY <1>1, MasterInvariant, PTL

\* MultidropTaskLock, whichever masters are disabled, alone or together: each
\* Acquire since the lock was last reset that had to wait is answered by a
\* Release, and the master that is handed the lock will look for its task.
THEOREM LockIsAlwaysPassedOn == Spec => []LockIsPassedOn
<1>1. ASSUME IInv PROVE LockIsPassedOn
  <2>1. /\ InOrder(lock)
        /\ \A i \in Masters : Placed(lock, i, master[i]) /\ Ready(lock, i, master[i])
    BY <1>1 DEF IInv, Locked, LockFine, Handler
  <2>2. lock.active # None => master[lock.active].tstate # "IDLE"
    BY <2>1 DEF InOrder, Placed
  <2>3. \A i \in Range(lock.queue) : master[i].tstate = "TASK_READY" /\ i # lock.active
    BY <2>1 DEF InOrder, Placed
  <2>4. \A i : Contains(lock.queue, i) <=> i \in Range(lock.queue)
    BY <2>1, ListsContains DEF InOrder
  <2>5. ASSUME NEW i \in lock.known
        PROVE  /\ master[i].tstate = "WAIT_FOR_RESPONSE" => lock.active = i
               /\ master[i].tstate = "TASK_READY" =>
                     \/ Contains(lock.queue, i)
                     \/ lock.active = i /\ (master[i].isSending \/ master[i].posted > 0)
    BY <2>1, <2>4 DEF InOrder, Placed, Ready
  <2>6. /\ lock.active = None => lock.queue = <<>>
        /\ {lock.active} \cup Range(lock.queue) \subseteq lock.known \cup {None}
    BY <2>1 DEF InOrder
  <2> QED BY <2>2, <2>3, <2>5, <2>6 DEF LockIsPassedOn
<1> QED BY <1>1, MasterInvariant, PTL

\* A task becomes active in a handler of its master, which took the first.
LEMMA StartsInOrder ==
    ASSUME IInv, [Next]_vars, NEW i \in Masters, master[i].isOnline, master[i].active = None,
           master'[i].active # None, NEW u \in Range(master'[i].tasks),
           Priority(u) < Priority(master'[i].active)
    PROVE  ~TaskEnabled(master[i].expiration, u)
<1>1. Scheduled /\ Untold /\ \A j \in Masters : DOMAIN master[j] = MasterFields /\ Sane(master[j])
  BY HandlerFacts DEF IInv
<1>2. Next
  BY DEF vars
<1>3. ~ChannelDown
  BY <1>1, ChannelDownEffect
<1>4. ~Tick
  <2> SUFFICES ASSUME Tick PROVE FALSE
    OBVIOUS
  <2>1. Same(master[i], master'[i], {"expiration", "startBy", "scheduleTimer", "startTimer"})
    BY <1>1, TickEffect
  <2> QED BY <1>1, <2>1 DEF Same
<1>5. PICK j \in Masters : \E X, before, g : Serves(j, X, before, g)
  BY <1>1, <1>2, <1>3, <1>4, StepServes DEF Served
<1>6. PICK X, before, g : Serves(j, X, before, g)
  BY <1>5
<1>7. Sane(g.c) /\ DOMAIN g.c = MasterFields
  BY <1>6 DEF Serves, Ok, Sane
<1>8. /\ Closes(g.c, master'[j])
      /\ \A k \in Masters \ {j} : Same(master[k], master'[k], {"posted"})
  BY <1>1, <1>6, <1>7, FinishEffect DEF Serves
<1>9. i = j
  BY <1>1, <1>8 DEF Same
<1>10. master'[i].active = g.c.active /\ master'[i].tasks = g.c.tasks
  BY <1>7, <1>8, <1>9 DEF Closes, Same
<1>11. StartsFirst(i, g)
  BY <1>6, <1>9 DEF Serves
<1> QED BY <1>10, <1>11 DEF StartsFirst

\* StartTask_Idle starts the task of the highest priority that is not disabled,
\* in any state that the scheduler can be in.
THEOREM StartsAreByPriority == Spec => StartsByPriority
<1>1. ASSUME IInv, [Next]_vars
      PROVE  [\A i \in Masters :
                LET c == master[i]
                    t == master'[i].active
                IN  c.isOnline /\ c.active = None /\ t # None =>
                      \A u \in Range(master'[i].tasks) :
                         Priority(u) < Priority(t) =>
                            \/ ~TaskEnabled(c.expiration, u)
                            \/ c.expiration[u] > 0 /\ ~BlocksLowerPriority(u)]_vars
  BY <1>1, StartsInOrder
<1> QED BY <1>1, MasterInvariant, PTL DEF Spec, StartsByPriority

\* A single-shot task leaves its master with its callback called, or with the
\* master going down.
LEMMA EndsAreTold ==
    ASSUME IInv, [Next]_vars, NEW t \in Adhoc, Running(t), ~Running(t)'
    PROVE  \/ calls'[t] = 1
           \/ \E i \in Masters : master[i].isOnline /\ ~master'[i].isOnline
<1>1. Scheduled /\ Untold /\ \A j \in Masters : DOMAIN master[j] = MasterFields /\ Sane(master[j])
  BY HandlerFacts DEF IInv
<1>2. t # None
  BY TaskKinds
<1>3. PICK k \in Masters : t \in Mine(master[k])
  BY <1>2 DEF Running, Held, Mine
<1>4. \A j \in Masters : t \notin Mine(master'[j])
  BY DEF Running, Held, Mine
<1>5. Next
  BY DEF vars, Running
<1>6. CASE ChannelDown
  <2>1. master[k].isOnline
    BY <1>1, <1>3 DEF Sane
  <2> QED BY <1>1, <1>6, <2>1, ChannelDownEffect
<1>7. ~Tick
  <2> SUFFICES ASSUME Tick PROVE FALSE
    OBVIOUS
  <2>1. Same(master[k], master'[k], {"expiration", "startBy", "scheduleTimer", "startTimer"})
    BY <1>1, TickEffect
  <2>2. Mine(master'[k]) = Mine(master[k])
    BY <1>1, <2>1 DEF Same, Mine
  <2> QED BY <1>3, <1>4, <2>2
<1>8. ASSUME NEW i \in Masters, Served(i)
      PROVE  \/ calls'[t] = 1
             \/ \E j \in Masters : master[j].isOnline /\ ~master'[j].isOnline
  <2>1. PICK X, before, g : Serves(i, X, before, g)
    BY <1>8 DEF Served
  <2>2. /\ Mine(master'[i]) = Mine(g.c)
        /\ \A j \in Masters \ {i} : Mine(master'[j]) = Mine(master[j])
        /\ calls'[t] = before[t] + Count(g, t)
    BY <1>1, <2>1, ServesMine
  <2>3. k = i /\ t \in Mine(master[i]) /\ t \notin Mine(g.c)
    BY <1>3, <1>4, <2>2
  <2>4. t \in X /\ before[t] = 0
    <3>1. Given(i, X, before) /\ calls[t] = 0 /\ DOMAIN calls = Adhoc
      BY <1>1, <2>1, <2>3 DEF Serves, Untold
    <3> QED BY <2>3, <3>1 DEF Given
  <2>5. CASE Drops(X, g)
    <3>1. Count(g, t) = 1
      BY <2>3, <2>4, <2>5 DEF Drops
    <3> QED BY <2>2, <2>4, <3>1
  <2>6. CASE master[i].isOnline /\ ~g.c.isOnline
    <3>1. Sane(g.c) /\ DOMAIN g.c = MasterFields
      BY <2>1 DEF Serves, Ok, Sane
    <3>2. Closes(g.c, master'[i])
      BY <1>1, <2>1, <3>1, FinishEffect DEF Serves
    <3>3. ~master'[i].isOnline
      BY <2>6, <3>1, <3>2 DEF Closes, Same
    <3> QED BY <2>6, <3>3
  <2> QED BY <2>1, <2>5, <2>6 DEF Serves
<1> QED BY <1>1, <1>5, <1>6, <1>7, <1>8, StepServes

\* IMasterTask's callback of a task of the user is called once for each time the
\* task was given to a master, unless the master goes down meanwhile.
THEOREM TasksEndWithOneCallback == Spec => EndsWithOneCallback
<1>1. ASSUME IInv, [Next]_vars
      PROVE  [\A t \in Adhoc :
                Running(t) /\ ~Running(t)' =>
                   \/ calls'[t] = 1
                   \/ \E i \in Masters : master[i].isOnline /\ ~master'[i].isOnline]_vars
  BY <1>1, EndsAreTold
<1> QED BY <1>1, MasterInvariant, PTL DEF Spec, EndsWithOneCallback
=============================================================================
