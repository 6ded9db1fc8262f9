------------------------- MODULE MultidropTaskLock -------------------------
(***************************************************************************)
(* The lock that the masters of one channel share, so that only one runs a *)
(* task at a time (cpp/libs/src/opendnp3/master/MultidropTaskLock.cpp).     *)
(* The lock calls OnPendingTask of the master it is handed to; woken names  *)
(* that master.                                                             *)
(***************************************************************************)
EXTENDS Naturals, SequencesExt

CONSTANTS Masters, None

ASSUME MastersAssumption == None \notin Masters

\* known is a history variable: the masters that came up, or asked for the
\* lock, since it was last reset.
InitialLock ==
    [isOnline |-> FALSE, active |-> None, queue |-> <<>>, woken |-> {}, known |-> {}]

AddIfNotContained(l, i) ==
    IF Contains(l.queue, i) THEN l ELSE [l EXCEPT !.queue = Append(@, i)]

\* Mutant of Acquire: a master that finds the lock taken is not queued.
AcquireUnqueued(l, i) ==
    IF ~l.isOnline \/ l.active = i THEN l
    ELSE LET k == [l EXCEPT !.known = @ \cup {i}]
         IN  IF l.active = None THEN [k EXCEPT !.active = i] ELSE k

\* Whether i holds the lock afterwards is what Acquire returns.
Acquire(l, i) ==
    IF ~l.isOnline \/ l.active = i THEN l
    ELSE LET k == [l EXCEPT !.known = @ \cup {i}]
         IN  IF l.active = None THEN [k EXCEPT !.active = i] ELSE AddIfNotContained(k, i)

\* Mutant of Release: the master that is handed the lock is not told.
ReleaseUntold(l, i) ==
    IF ~l.isOnline \/ l.active # i THEN l
    ELSE IF l.queue = <<>> THEN [l EXCEPT !.active = None]
    ELSE [l EXCEPT !.active = Head(l.queue), !.queue = Tail(l.queue)]

Release(l, i) ==
    IF ~l.isOnline \/ l.active # i THEN l
    ELSE IF l.queue = <<>> THEN [l EXCEPT !.active = None]
    ELSE [l EXCEPT !.active = Head(l.queue), !.queue = Tail(l.queue), !.woken = {Head(l.queue)}]

OnLayerUp(l, i) == [l EXCEPT !.isOnline = TRUE, !.known = @ \cup {i}]

\* Whichever master goes down, the lock of all is reset.
OnLayerDown(l) ==
    IF l.isOnline
    THEN [l EXCEPT !.isOnline = FALSE, !.active = None, !.queue = <<>>, !.known = {}]
    ELSE l
=============================================================================
