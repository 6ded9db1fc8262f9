---------------------------- MODULE ChannelProofs ----------------------------
(***************************************************************************)
(* What a channel keeps true, for any number of sessions and any retry     *)
(* times: the monitor, the physical layer, the router and the sessions     *)
(* agree about what is under way, the channel serves the enabled sessions, *)
(* and it implements ChannelService.                                       *)
(***************************************************************************)
EXTENDS Channel, TLAPS

ChannelFields ==
    {"state", "timer", "canceled", "isOnline", "currentRetry", "isOpen", "isOpening",
     "isReading", "isWriting", "isClosing", "records", "transmitQueue", "isTransmitting", "up",
     "sending", "removed", "request", "shutdownHandler", "refused"}

USE DEF ChannelFields

Flags == {"isOnline", "isOpen", "isOpening", "isReading", "isWriting", "isClosing",
          "isTransmitting"}

\* d is c, but for the fields F.
Same(c, d, F) == DOMAIN d = DOMAIN c /\ \A f \in DOMAIN c \ F : d[f] = c[f]

Record == [pContext : Sessions, enabled : BOOLEAN]

\* No session has two records.
Distinct(q) ==
    /\ q \in Seq(Record)
    /\ \A i, j \in DOMAIN q : q[i].pContext = q[j].pContext => i = j

Typed(c) ==
    /\ DOMAIN c = ChannelFields
    /\ \A f \in Flags : c[f] \in BOOLEAN
    /\ c.timer \in Nat /\ c.currentRetry \in Nat \ {0}
    /\ c.transmitQueue \in Seq(Sessions)
    /\ Distinct(c.records)
    /\ c.refused = {}

----------------------------------------------------------------------------
(* At any point of a handler, and between two of them.                      *)

Openings == {"Opening", "OpeningClosing", "OpeningSuspending", "OpeningStopping"}
Onlines  == {"Open", "Closing", "Suspending", "ShutingDown"}
Offlines == {"Init", "Waiting", "Suspended", "Shutdown"}

\* The monitor knows what the physical layer does.
Physical(c) ==
    /\ c.state \in Openings \cup Onlines \cup Offlines
    /\ c.isOpening <=> c.state \in Openings
    /\ c.isOpen <=> c.state \in Onlines
    /\ c.isOnline <=> c.isOpen
    /\ c.isReading \/ c.isWriting => c.isOpen
    /\ c.isClosing => c.state \in (Openings \cup Onlines) \ {"Opening"}
    /\ c.state \in (Openings \cup Onlines) \ {"Opening", "Open"} => c.isClosing
    /\ c.timer # 0 <=> c.state = "Waiting"

\* What is written is the head of the queue.
Queued(c) ==
    /\ c.isTransmitting => c.transmitQueue # <<>>
    /\ c.isWriting => c.isTransmitting

\* The sessions of the router were told the state of the connection; gone are
\* those that the router forgot and that are not deleted yet.
Told(c, gone) ==
    /\ c.up \cap Bound(c) = IF c.isOnline THEN Enabled(c) ELSE {}
    /\ c.up \subseteq Bound(c) \cup gone
    /\ Bound(c) \cap gone = {}

\* The monitor does what was requested last, and that fits the sessions.
Requested(c) ==
    /\ c.request \in {"None", "Start", "Suspend", "Shutdown"}
    /\ c.shutdownHandler \in {"None", "Waiting", "Set"}
    /\ c.request = "Start" <=> Enabled(c) # {}
    /\ c.request = "Start" =>
            c.state \in {"Opening", "OpeningClosing", "Open", "Closing", "Waiting"}
    /\ c.request \in {"None", "Suspend"} =>
            c.state \in {"Init", "OpeningSuspending", "Suspending", "Suspended"}
    /\ c.request = "Shutdown" =>
            c.state \in {"OpeningStopping", "ShutingDown", "Shutdown"} /\ Bound(c) = {}
    /\ c.request = "Shutdown" <=> c.shutdownHandler # "None"
    /\ c.shutdownHandler = "Set" <=> c.state = "Shutdown"

Steady(c, gone) == Typed(c) /\ Physical(c) /\ Queued(c) /\ Told(c, gone) /\ Requested(c)

\* Who closes waits for a completion; without one it would have closed.
Pending(c) == c.isClosing => CallbacksPending(c)

Sound(c, gone) == Steady(c, gone) /\ Pending(c)

----------------------------------------------------------------------------
(* Frames.                                                                  *)

\* The first frame of the queue is written if the layer can: that is all that
\* the handing over of a frame changes.
Writes(c, d) ==
    /\ Same(c, d, {"sending", "transmitQueue", "isTransmitting", "isWriting"})
    /\ d.transmitQueue \in Seq(Sessions)
    /\ d.isTransmitting \in BOOLEAN /\ d.isWriting \in BOOLEAN
    /\ Queued(d)
    /\ c.isWriting => d.isWriting
    /\ d.isWriting => c.isWriting \/ (c.isOpen /\ ~c.isClosing)

\* CheckForSend writes the head of the queue.
LEMMA CheckForSendWrites ==
    ASSUME NEW c, Typed(c), Queued(c)
    PROVE  Writes(c, CheckForSend(c))
<1> DEFINE d == [c EXCEPT !.isTransmitting = TRUE]
<1>1. CASE c.transmitQueue # <<>> /\ ~c.isTransmitting /\ CanWrite(c)
  <2>1. CanWrite(d)
    BY <1>1 DEF CanWrite, Typed
  <2>2. CheckForSend(c) = [d EXCEPT !.isWriting = TRUE]
    BY <1>1, <2>1 DEF CheckForSend, BeginWrite
  <2> QED BY <1>1, <2>2 DEF Writes, Same, Queued, Typed, Flags, CanWrite
<1>2. CASE ~(c.transmitQueue # <<>> /\ ~c.isTransmitting /\ CanWrite(c))
  <2>1. CheckForSend(c) = c
    BY <1>2 DEF CheckForSend
  <2> QED BY <2>1 DEF Writes, Same, Queued, Typed, Flags
<1> QED BY <1>1, <1>2

\* A session that talks is up, so the router is online.
LEMMA TalkWrites ==
    ASSUME NEW c, Typed(c), Queued(c), NEW s \in Sessions, NEW talkers,
           s \in c.up => c.isOnline
    PROVE  Writes(c, Talk(c, s, talkers))
<1> DEFINE a == [c EXCEPT !.sending = @ \cup {s}]
           b == [a EXCEPT !.transmitQueue = Append(@, s)]
<1>1. CASE s \in talkers /\ s \in c.up \ c.sending /\ Len(c.transmitQueue) < MaxQueue
  <2>1. Talk(c, s, talkers) = CheckForSend(b)
    BY <1>1 DEF Talk, BeginTransmit, Typed
  <2>2. b.transmitQueue \in Seq(Sessions) /\ b.transmitQueue # <<>>
    BY DEF Typed
  <2>3. /\ Same(c, b, {"sending", "transmitQueue"}) /\ DOMAIN b = ChannelFields
        /\ b.isTransmitting = c.isTransmitting /\ b.isWriting = c.isWriting
        /\ b.isOpen = c.isOpen /\ b.isClosing = c.isClosing
    BY DEF Same, Typed
  <2> HIDE DEF b
  <2>4. Typed(b) /\ Queued(b)
    <3>1. \A f \in Flags : b[f] = c[f]
      BY <2>3 DEF Same, Flags, Typed
    <3> QED BY <2>2, <2>3, <3>1 DEF Typed, Queued, Same, Flags
  <2>5. Writes(b, CheckForSend(b))
    BY <2>4, CheckForSendWrites
  <2> QED BY <2>1, <2>3, <2>5 DEF Writes, Same, Typed
<1>2. CASE ~(s \in talkers /\ s \in c.up \ c.sending /\ Len(c.transmitQueue) < MaxQueue)
  <2>1. Talk(c, s, talkers) = c
    BY <1>2 DEF Talk
  <2> QED BY <2>1 DEF Writes, Same, Typed, Flags, Queued
<1> QED BY <1>1, <1>2

\* One writing after another is a writing.
LEMMA WritesTwice ==
    ASSUME NEW a, NEW b, NEW c, DOMAIN a = ChannelFields, Writes(a, b), Writes(b, c)
    PROVE  Writes(a, c)
BY DEF Writes, Same

\* A writing leaves everything as sound as it was.
LEMMA WritesSteady ==
    ASSUME NEW c, NEW d, NEW gone, Steady(c, gone), Writes(c, d)
    PROVE  /\ Steady(d, gone) /\ (Pending(c) => Pending(d))
           /\ d.records = c.records /\ d.request = c.request /\ d.isOnline = c.isOnline
           /\ d.shutdownHandler = c.shutdownHandler /\ d.isClosing = c.isClosing
           /\ d.isOpen = c.isOpen /\ d.isReading = c.isReading
<1>1. /\ DOMAIN d = ChannelFields
      /\ d.state = c.state /\ d.timer = c.timer /\ d.isOnline = c.isOnline
      /\ d.currentRetry = c.currentRetry /\ d.isOpen = c.isOpen /\ d.isOpening = c.isOpening
      /\ d.isReading = c.isReading /\ d.isClosing = c.isClosing /\ d.records = c.records
      /\ d.up = c.up /\ d.request = c.request /\ d.shutdownHandler = c.shutdownHandler
      /\ d.refused = c.refused
  BY DEF Writes, Same, Steady, Typed
<1>2. Typed(d)
  <2>1. \A f \in Flags : d[f] \in BOOLEAN
    BY <1>1 DEF Writes, Steady, Typed, Flags
  <2> QED BY <1>1, <2>1 DEF Writes, Steady, Typed
<1>3. Physical(d)
  BY <1>1 DEF Writes, Steady, Physical
<1>4. Queued(d)
  BY DEF Writes
<1>5. Told(d, gone) /\ Requested(d)
  BY <1>1 DEF Steady, Told, Requested, Bound, Enabled
<1>6. Pending(c) => Pending(d)
  BY <1>1 DEF Writes, Pending, CallbacksPending
<1> QED BY <1>1, <1>2, <1>3, <1>4, <1>5, <1>6 DEF Steady

----------------------------------------------------------------------------
(* The records of the router, one after the other.                          *)

\* The enabled sessions of the first n records.
Among(q, n) == {q[k].pContext : k \in {k \in 1 .. n : q[k].enabled}}

\* The records, said of their positions.
LEMMA RecordFacts ==
    ASSUME NEW c, Distinct(c.records)
    PROVE  /\ Len(c.records) \in Nat /\ DOMAIN c.records = 1 .. Len(c.records)
           /\ \A k \in 1 .. Len(c.records) :
                 c.records[k].pContext \in Sessions /\ c.records[k].enabled \in BOOLEAN
           /\ Among(c.records, 0) = {} /\ Among(c.records, Len(c.records)) = Enabled(c)
           /\ Enabled(c) \subseteq Bound(c) /\ Bound(c) \subseteq Sessions
<1> DEFINE q == c.records
           n == Len(q)
<1>1. q \in Seq(Record) /\ n \in Nat /\ DOMAIN q = 1 .. n
  BY DEF Distinct
<1>2. \A k \in 1 .. n : q[k] \in Record
  BY <1>1
<1>3. \A k \in 1 .. n : q[k].pContext \in Sessions /\ q[k].enabled \in BOOLEAN
  BY <1>2 DEF Record
<1>4. Range(q) = {q[k] : k \in 1 .. n}
  BY <1>1 DEF Range
<1>5. Among(q, 0) = {}
  BY DEF Among
<1>6. Among(q, n) = Enabled(c)
  BY <1>4 DEF Among, Enabled
<1>7. Enabled(c) \subseteq Bound(c)
  BY DEF Enabled, Bound
<1>8. Bound(c) \subseteq Sessions
  BY <1>3, <1>4 DEF Bound
<1> QED BY <1>1, <1>3, <1>5, <1>6, <1>7, <1>8

\* One record more.
LEMMA AmongNext ==
    ASSUME NEW q, Distinct(q), NEW m \in 1 .. Len(q)
    PROVE  /\ Among(q, m) = Among(q, m - 1) \cup (IF q[m].enabled THEN {q[m].pContext} ELSE {})
           /\ q[m].pContext \notin Among(q, m - 1)
<1>1. 1 .. m = (1 .. m - 1) \cup {m}
  OBVIOUS
<1>2. Among(q, m) = Among(q, m - 1) \cup (IF q[m].enabled THEN {q[m].pContext} ELSE {})
  BY <1>1 DEF Among
<1>3. ASSUME q[m].pContext \in Among(q, m - 1) PROVE FALSE
  <2>1. PICK k \in 1 .. m - 1 : q[m].pContext = q[k].pContext
    BY <1>3 DEF Among
  <2>2. k \in DOMAIN q /\ m \in DOMAIN q /\ k # m
    BY DEF Distinct
  <2> QED BY <2>1, <2>2 DEF Distinct
<1> QED BY <1>2, <1>3

\* Every enabled session is told that the layer is up, and may talk.
UpStep(p, d, r) ==
    IF r.enabled THEN Talk(SessionUp(d, r.pContext), r.pContext, p.talkers) ELSE d

Opened == {"up", "sending", "transmitQueue", "isTransmitting", "isWriting"}

UpTo(p, n, d) ==
    /\ Same(p.c, d, Opened) /\ Typed(d) /\ Queued(d)
    /\ d.up = p.c.up \cup Among(p.c.records, n)

Raised(c, q, talkers) ==
    FoldLeft(LAMBDA d, r : IF r.enabled
                           THEN Talk(SessionUp(d, r.pContext), r.pContext, talkers) ELSE d,
             c, q)

Rising == INSTANCE FoldSteps WITH Step <- UpStep, Holds <- UpTo

\* None of them had been told before.
LEMMA AllUp ==
    ASSUME NEW c, Typed(c), Queued(c), c.isOnline, c.up \cap Enabled(c) = {}, NEW talkers
    PROVE  LET d == Raised(c, c.records, talkers)
           IN  /\ Same(c, d, Opened) /\ Typed(d) /\ Queued(d)
               /\ d.up = c.up \cup Enabled(c)
<1> DEFINE p == [c |-> c, talkers |-> talkers]
           q == c.records
           n == Len(q)
           d == Raised(c, c.records, talkers)
<1>1. /\ n \in Nat /\ DOMAIN q = 1 .. n /\ Among(q, 0) = {} /\ Among(q, n) = Enabled(c)
      /\ \A k \in 1 .. n : q[k].pContext \in Sessions
  BY RecordFacts DEF Typed
<1>2. d = Rising!Folded(p, c, q)
  BY DEF Raised, FoldLeft, MapThenFoldSet, Max, UpStep,
         Rising!Folded, Rising!Folding, Rising!Largest
<1>3. UpTo(p, 0, c)
  BY <1>1 DEF UpTo, Same
<1>4. ASSUME NEW m \in 1 .. n, NEW x, UpTo(p, m - 1, x)
      PROVE  UpTo(p, m, UpStep(p, x, q[m]))
  <2> DEFINE s == q[m].pContext
             y == [x EXCEPT !.up = @ \cup {s}]
             z == Talk(y, s, talkers)
  <2>1. /\ Same(c, x, Opened) /\ Typed(x) /\ Queued(x) /\ x.up = c.up \cup Among(q, m - 1)
        /\ s \in Sessions
    BY <1>1, <1>4 DEF UpTo
  <2>2. /\ Among(q, m) = Among(q, m - 1) \cup (IF q[m].enabled THEN {s} ELSE {})
        /\ s \notin Among(q, m - 1)
    BY AmongNext DEF Typed
  <2>3. CASE ~q[m].enabled
    <3>1. UpStep(p, x, q[m]) = x /\ Among(q, m) = Among(q, m - 1)
      BY <2>2, <2>3 DEF UpStep
    <3> QED BY <1>4, <3>1 DEF UpTo
  <2>4. CASE q[m].enabled
    <3>1. s \in Enabled(c)
      <4>1. q[m] \in Range(c.records)
        BY <1>1 DEF Range
      <4> QED BY <2>4, <4>1 DEF Enabled
    <3>2. s \notin x.up
      BY <2>1, <2>2, <3>1
    <3>3. UpStep(p, x, q[m]) = z
      BY <2>4, <3>2 DEF UpStep, SessionUp
    <3>4. /\ DOMAIN y = ChannelFields /\ Same(x, y, {"up"}) /\ y.up = x.up \cup {s}
      BY <2>1 DEF Same, Typed
    <3> HIDE DEF y, s
    <3>5. \A f \in Flags : y[f] = x[f]
      BY <2>1, <3>4 DEF Same, Flags, Typed
    <3>6. Typed(y) /\ Queued(y) /\ y.isOnline
      BY <2>1, <3>4, <3>5 DEF Same, Typed, Queued, Opened, Flags
    <3>7. Writes(y, z)
      BY <2>1, <3>6, TalkWrites
    <3> HIDE DEF z
    <3>8. /\ z.up = c.up \cup Among(q, m)
          /\ Same(c, z, Opened)
      BY <2>1, <2>2, <2>4, <3>4, <3>7 DEF Writes, Same, Typed, Opened
    <3>9. /\ \A f \in Flags : z[f] \in BOOLEAN
      BY <3>6, <3>7 DEF Writes, Same, Typed, Flags
    <3>10. Typed(z) /\ Queued(z)
      BY <3>6, <3>7, <3>9 DEF Writes, Same, Typed
    <3> QED BY <3>3, <3>8, <3>10 DEF UpTo
  <2> QED BY <2>3, <2>4
<1>5. UpTo(p, n, Rising!Folded(p, c, q))
  <2> HIDE DEF p, q, n
  <2> QED BY <1>1, <1>3, <1>4, Rising!FoldInduction
<1> HIDE DEF d
<1> QED BY <1>1, <1>2, <1>5 DEF UpTo, d

\* Every enabled session is told that the layer is down.
DownStep(p, d, r) == IF r.enabled THEN SessionDown(d, r.pContext) ELSE d

DownTo(p, n, d) ==
    Same(p.c, d, {"up", "sending"}) /\ d.up = p.c.up \ Among(p.c.records, n)

Lowered(c, q) ==
    FoldLeft(LAMBDA d, r : IF r.enabled THEN SessionDown(d, r.pContext) ELSE d, c, q)

Falling == INSTANCE FoldSteps WITH Step <- DownStep, Holds <- DownTo

\* All of them were up.
LEMMA AllDown ==
    ASSUME NEW c, DOMAIN c = ChannelFields, Distinct(c.records), Enabled(c) \subseteq c.up
    PROVE  LET d == Lowered(c, c.records)
           IN  Same(c, d, {"up", "sending"}) /\ d.up = c.up \ Enabled(c)
<1> DEFINE p == [c |-> c]
           q == c.records
           n == Len(q)
           d == Lowered(c, c.records)
<1>1. /\ n \in Nat /\ DOMAIN q = 1 .. n /\ Among(q, 0) = {} /\ Among(q, n) = Enabled(c)
  BY RecordFacts
<1>2. d = Falling!Folded(p, c, q)
  BY DEF Lowered, FoldLeft, MapThenFoldSet, Max, DownStep,
         Falling!Folded, Falling!Folding, Falling!Largest
<1>3. DownTo(p, 0, c)
  BY <1>1 DEF DownTo, Same
<1>4. ASSUME NEW m \in 1 .. n, NEW x, DownTo(p, m - 1, x)
      PROVE  DownTo(p, m, DownStep(p, x, q[m]))
  <2> DEFINE s == q[m].pContext
             y == [x EXCEPT !.up = @ \ {s}, !.sending = @ \ {s}]
  <2>1. Same(c, x, {"up", "sending"}) /\ x.up = c.up \ Among(q, m - 1)
    BY <1>4 DEF DownTo
  <2>2. /\ Among(q, m) = Among(q, m - 1) \cup (IF q[m].enabled THEN {s} ELSE {})
        /\ s \notin Among(q, m - 1)
    BY AmongNext
  <2>3. CASE ~q[m].enabled
    <3>1. DownStep(p, x, q[m]) = x /\ Among(q, m) = Among(q, m - 1)
      BY <2>2, <2>3 DEF DownStep
    <3> QED BY <1>4, <3>1 DEF DownTo
  <2>4. CASE q[m].enabled
    <3>1. s \in Enabled(c)
      <4>1. q[m] \in Range(c.records)
        BY <1>1 DEF Range
      <4> QED BY <2>4, <4>1 DEF Enabled
    <3>2. s \in x.up
      BY <2>1, <2>2, <3>1
    <3>3. DownStep(p, x, q[m]) = y
      BY <2>4, <3>2 DEF DownStep, SessionDown
    <3>4. Same(c, y, {"up", "sending"}) /\ y.up = x.up \ {s}
      BY <2>1 DEF Same
    <3> HIDE DEF y, s
    <3>5. y.up = c.up \ Among(q, m)
      BY <2>1, <2>2, <2>4, <3>4
    <3> QED BY <3>3, <3>4, <3>5 DEF DownTo
  <2> QED BY <2>3, <2>4
<1>5. DownTo(p, n, Falling!Folded(p, c, q))
  <2> HIDE DEF p, q, n
  <2> QED BY <1>1, <1>3, <1>4, Falling!FoldInduction
<1> HIDE DEF d
<1> QED BY <1>1, <1>2, <1>5 DEF DownTo, d

\* The frames that were read reach the enabled sessions, which may answer.
HearStep(p, d, r) == IF r.enabled THEN Talk(d, r.pContext, p.talkers) ELSE d

HeardTo(p, n, d) == Writes(p.c, d) /\ Typed(d)

Heard(c, talkers) ==
    FoldLeft(LAMBDA d, r : IF r.enabled THEN Talk(d, r.pContext, talkers) ELSE d, c, c.records)

Hearing == INSTANCE FoldSteps WITH Step <- HearStep, Holds <- HeardTo

\* What a writing leaves is well typed.
LEMMA WritesTyped ==
    ASSUME NEW c, NEW d, Typed(c), Writes(c, d)
    PROVE  Typed(d) /\ Queued(d) /\ d.isOnline = c.isOnline /\ d.up = c.up
<1>1. \A f \in Flags : d[f] \in BOOLEAN
  BY DEF Writes, Same, Typed, Flags
<1> QED BY <1>1 DEF Writes, Same, Typed

\* While the router is online, all they do is hand over frames.
LEMMA AllHear ==
    ASSUME NEW c, Typed(c), Queued(c), c.isOnline, NEW talkers
    PROVE  Writes(c, Heard(c, talkers))
<1> DEFINE p == [c |-> c, talkers |-> talkers]
           q == c.records
           n == Len(q)
           d == Heard(c, talkers)
<1>1. n \in Nat /\ DOMAIN q = 1 .. n /\ \A k \in 1 .. n : q[k].pContext \in Sessions
  BY RecordFacts DEF Typed
<1>2. d = Hearing!Folded(p, c, q)
  BY DEF Heard, FoldLeft, MapThenFoldSet, Max, HearStep,
         Hearing!Folded, Hearing!Folding, Hearing!Largest
<1>3. HeardTo(p, 0, c)
  <2>1. c.isTransmitting \in BOOLEAN /\ c.isWriting \in BOOLEAN
    BY DEF Typed, Flags
  <2> QED BY <2>1 DEF HeardTo, Writes, Same, Typed
<1>4. ASSUME NEW m \in 1 .. n, NEW x, HeardTo(p, m - 1, x)
      PROVE  HeardTo(p, m, HearStep(p, x, q[m]))
  <2> DEFINE s == q[m].pContext
             y == Talk(x, s, talkers)
  <2>1. s \in Sessions /\ Writes(c, x) /\ Typed(x) /\ Queued(x) /\ x.isOnline
    BY <1>1, <1>4, WritesTyped DEF HeardTo
  <2>2. HearStep(p, x, q[m]) = IF q[m].enabled THEN y ELSE x
    BY DEF HearStep
  <2> HIDE DEF s
  <2>3. Writes(x, y)
    BY <2>1, TalkWrites
  <2> HIDE DEF y
  <2>4. Writes(c, y) /\ Typed(y)
    BY <2>1, <2>3, WritesTwice, WritesTyped DEF Typed
  <2> QED BY <2>1, <2>2, <2>4 DEF HeardTo
<1>5. HeardTo(p, n, Hearing!Folded(p, c, q))
  <2> HIDE DEF p, q, n
  <2> QED BY <1>1, <1>3, <1>4, Hearing!FoldInduction
<1> HIDE DEF d
<1> QED BY <1>2, <1>5 DEF HeardTo, d

\* So does the router when it has received something.
LEMMA OnReceiveSteady ==
    ASSUME NEW c, NEW gone, Steady(c, gone), c.isOnline, ~c.isClosing, NEW talkers
    PROVE  LET d == OnReceive(c, talkers)
           IN  /\ Steady(d, gone) /\ d.records = c.records /\ d.request = c.request
               /\ d.isOnline = c.isOnline /\ d.shutdownHandler = c.shutdownHandler
<1> DEFINE e == Heard(c, talkers)
<1>1. Writes(c, e)
  <2>1. Typed(c) /\ Queued(c) /\ c.isOnline
    BY DEF Steady
  <2> QED BY <2>1, AllHear
<1>2. OnReceive(c, talkers) = BeginRead(e)
  BY DEF OnReceive, Heard
<1> HIDE DEF e
<1>3. /\ Steady(e, gone) /\ e.records = c.records /\ e.request = c.request
      /\ e.isOnline = c.isOnline /\ e.shutdownHandler = c.shutdownHandler
  BY <1>1, WritesSteady
<1>4. CASE CanRead(e)
  <2> DEFINE d == [e EXCEPT !.isReading = TRUE]
  <2>1. DOMAIN d = ChannelFields /\ Same(e, d, {"isReading"}) /\ d.isReading = TRUE /\ e.isOpen
    BY <1>3, <1>4 DEF Steady, Typed, Same, CanRead
  <2>2. OnReceive(c, talkers) = d
    BY <1>2, <1>4 DEF BeginRead
  <2> HIDE DEF d
  <2>3. Typed(d)
    <3>1. \A f \in Flags : d[f] \in BOOLEAN
      BY <1>3, <2>1 DEF Same, Steady, Typed, Flags
    <3> QED BY <1>3, <2>1, <3>1 DEF Same, Steady, Typed
  <2>4. Physical(d) /\ Queued(d)
    BY <1>3, <2>1, ZenonT(30) DEF Same, Steady, Typed, Physical, Queued
  <2>5. Told(d, gone) /\ Requested(d)
    BY <1>3, <2>1, ZenonT(30) DEF Same, Steady, Typed, Told, Requested, Bound, Enabled
  <2>6. /\ d.records = e.records /\ d.request = e.request /\ d.isOnline = e.isOnline
        /\ d.shutdownHandler = e.shutdownHandler
    BY <1>3, <2>1 DEF Same, Steady, Typed
  <2> QED BY <1>3, <2>2, <2>3, <2>4, <2>5, <2>6 DEF Steady
<1>5. CASE ~CanRead(e)
  BY <1>2, <1>3, <1>5 DEF BeginRead
<1> QED BY <1>4, <1>5

----------------------------------------------------------------------------
(* The monitor's answers to the physical layer.                             *)

\* What a handler that does not connect may do to the sessions.
Outcome(c, d) ==
    /\ d.records = c.records /\ d.request = c.request
    /\ d.isOnline => c.isOnline
    /\ c.shutdownHandler = "Set" => d.shutdownHandler = "Set"

\* The shutdown is reported with the last state.
LEMMA ChangeStateEffect ==
    ASSUME NEW c, DOMAIN c = ChannelFields, NEW state
    PROVE  LET d == ChangeState(c, state)
           IN  /\ Same(c, d, {"state", "shutdownHandler"})
               /\ d.state = state
               /\ d.shutdownHandler = IF c.shutdownHandler # "None" /\ state = "Shutdown"
                                      THEN "Set" ELSE c.shutdownHandler
<1> DEFINE e == [c EXCEPT !.state = state]
<1>1. /\ Same(c, e, {"state"}) /\ e.state = state /\ e.shutdownHandler = c.shutdownHandler
      /\ DOMAIN e = ChannelFields
  BY DEF Same
<1>2. ChangeState(c, state) = CheckForFinalShutdown(e)
  BY DEF ChangeState
<1> HIDE DEF e
<1>3. GetState(e) = "SHUTDOWN" <=> state = "Shutdown"
  BY <1>1 DEF GetState
<1> QED BY <1>1, <1>2, <1>3 DEF CheckForFinalShutdown, Same

\* The timer that starts when the channel waits.
LEMMA WaitEffect ==
    ASSUME NEW c, DOMAIN c = ChannelFields, c.timer = 0, c.currentRetry \in Nat \ {0}
    PROVE  LET d == IF c.state = "Waiting" THEN StartOpenTimer(c) ELSE c
           IN  /\ Same(c, d, {"timer"}) /\ d.timer \in Nat
               /\ d.timer # 0 <=> c.state = "Waiting"
BY DEF StartOpenTimer, Same

\* The state that follows when the layer has closed or could not be opened.
LEMMA NextStates ==
    /\ DOMAIN LayerCloseNext = Onlines /\ DOMAIN OpenFailureNext = Openings
    /\ \A f \in {LayerCloseNext, OpenFailureNext} : \A state \in DOMAIN f :
          /\ f[state] \in {"Waiting", "Suspended", "Shutdown"}
          /\ f[state] = "Waiting" <=> state \in {"Opening", "OpeningClosing", "Open", "Closing"}
          /\ f[state] = "Suspended" <=> state \in {"OpeningSuspending", "Suspending"}
          /\ f[state] = "Shutdown" <=> state \in {"OpeningStopping", "ShutingDown"}
BY DEF LayerCloseNext, OpenFailureNext, Onlines, Openings

\* A state that rests, as the request wants it: the connection is gone, and
\* the sessions were told.
LEMMA RestIsSound ==
    ASSUME NEW c, NEW gone, Steady(c, gone), NEW d, DOMAIN d = ChannelFields,
           Same(c, d, ChannelFields \ {"records", "removed", "request"}),
           d.isOnline = FALSE, d.isOpen = FALSE, d.isOpening = FALSE, d.isReading = FALSE,
           d.isWriting = FALSE, d.isClosing = FALSE, d.isTransmitting \in BOOLEAN,
           d.transmitQueue \in Seq(Sessions), d.isTransmitting => d.transmitQueue # <<>>,
           d.timer \in Nat, d.timer # 0 <=> d.state = "Waiting",
           d.currentRetry \in Nat \ {0}, d.refused = {},
           d.up = c.up \ Enabled(c),
           NEW f \in {LayerCloseNext, OpenFailureNext}, c.state \in DOMAIN f,
           d.state = f[c.state],
           d.shutdownHandler = IF c.shutdownHandler # "None" /\ d.state = "Shutdown"
                               THEN "Set" ELSE c.shutdownHandler
    PROVE  Sound(d, gone) /\ Outcome(c, d)
<1>1. d.records = c.records /\ d.request = c.request
  BY DEF Same, Steady, Typed
<1>2. /\ d.state \in {"Waiting", "Suspended", "Shutdown"}
      /\ d.state = "Waiting" <=> c.state \in {"Opening", "OpeningClosing", "Open", "Closing"}
      /\ d.state = "Suspended" <=> c.state \in {"OpeningSuspending", "Suspending"}
      /\ d.state = "Shutdown" <=> c.state \in {"OpeningStopping", "ShutingDown"}
      /\ c.state \notin Offlines
  BY NextStates DEF Onlines, Openings, Offlines
<1>3. Typed(d)
  BY <1>1 DEF Steady, Typed, Flags
<1>4. Physical(d) /\ Queued(d)
  BY <1>2 DEF Physical, Queued, Openings, Onlines, Offlines
<1>5. Bound(d) = Bound(c) /\ Enabled(d) = Enabled(c) /\ Enabled(c) \subseteq Bound(c)
  BY <1>1 DEF Bound, Enabled
<1>6. Told(d, gone)
  <2>1. d.up \cap Bound(d) = {}
    BY <1>5 DEF Steady, Told
  <2> QED BY <1>5, <2>1 DEF Steady, Told
<1>7. Requested(d)
  BY <1>1, <1>2, <1>5 DEF Steady, Requested, Offlines
<1>8. Pending(d) /\ Outcome(c, d)
  BY <1>1, <1>2 DEF Pending, Outcome, Steady, Requested, Offlines
<1> QED BY <1>3, <1>4, <1>6, <1>7, <1>8 DEF Sound, Steady

\* The layer has closed: the monitor rests and every enabled session is told.
LEMMA DownSound ==
    ASSUME NEW c, NEW gone, Steady(c, gone), c.isClosing, ~CallbacksPending(c)
    PROVE  LET d == OnLowerLayerDown(CloseState(c))
           IN  Sound(d, gone) /\ Outcome(c, d) /\ d.isOnline = FALSE
<1> DEFINE x == [c EXCEPT !.isClosing = FALSE, !.isOpen = FALSE]
           next == LayerCloseNext[c.state]
           y == ChangeState(x, next)
           z == IF y.state = "Waiting" THEN StartOpenTimer(y) ELSE y
           v == [z EXCEPT !.isOnline = FALSE, !.isTransmitting = FALSE, !.transmitQueue = <<>>]
           d == Lowered(v, v.records)
<1>1. c.state \in Onlines /\ c.state \in DOMAIN LayerCloseNext /\ c.isOpen /\ c.isOnline
  BY NextStates DEF Steady, Physical, CallbacksPending
<1>2. /\ Same(c, x, {"isClosing", "isOpen"}) /\ x.isClosing = FALSE /\ x.isOpen = FALSE
      /\ DOMAIN x = ChannelFields /\ x.state = c.state /\ CloseState(c) = x
  BY DEF Same, Steady, Typed, CloseState, Closable
<1> HIDE DEF x
<1>3. /\ Same(x, y, {"state", "shutdownHandler"}) /\ y.state = next
      /\ y.shutdownHandler = IF x.shutdownHandler # "None" /\ next = "Shutdown"
                             THEN "Set" ELSE x.shutdownHandler
  BY <1>2, ChangeStateEffect
<1> HIDE DEF y
<1>4. DOMAIN y = ChannelFields /\ y.timer = 0 /\ y.currentRetry \in Nat \ {0}
  <2>1. c.timer = 0
    BY <1>1 DEF Steady, Physical, Onlines
  <2> QED BY <1>2, <1>3, <2>1 DEF Same, Steady, Typed
<1>5. /\ Same(y, z, {"timer"}) /\ z.timer \in Nat
      /\ z.timer # 0 <=> y.state = "Waiting"
  BY <1>4, WaitEffect
<1> HIDE DEF z
<1>6. /\ Same(z, v, {"isOnline", "isTransmitting", "transmitQueue"})
      /\ v.isOnline = FALSE /\ v.isTransmitting = FALSE /\ v.transmitQueue = <<>>
      /\ DOMAIN v = ChannelFields
  BY <1>4, <1>5 DEF Same
<1>7. OnLowerLayerDown(x) = d
  <2> DEFINE w == [z EXCEPT !.isOnline = FALSE]
  <2>1. w.records = v.records
    BY <1>4, <1>5 DEF Same
  <2>2. x.state \in DOMAIN LayerCloseNext
    BY <1>1, <1>2
  <2>3. OnLowerLayerDown(x) = CloseCallback(w)
    BY <1>2, <2>2 DEF OnLowerLayerDown, y, z
  <2>4. CloseCallback(w) = Lowered(v, w.records)
    BY DEF CloseCallback, Lowered
  <2> HIDE DEF w, v
  <2> QED BY <2>1, <2>3, <2>4
<1> HIDE DEF v
<1>8. v.records = c.records /\ v.up = c.up
  BY <1>2, <1>3, <1>5, <1>6 DEF Same, Steady, Typed
<1>9. Enabled(v) = Enabled(c) /\ Enabled(v) \subseteq v.up
  BY <1>1, <1>8 DEF Steady, Told, Enabled
<1>10. Same(v, d, {"up", "sending"}) /\ d.up = v.up \ Enabled(v)
  BY <1>6, <1>8, <1>9, AllDown DEF Steady, Typed
<1> HIDE DEF d
<1>11. /\ DOMAIN d = ChannelFields
       /\ d.isOpening = c.isOpening /\ d.isReading = c.isReading /\ d.isWriting = c.isWriting
       /\ d.isClosing = FALSE /\ d.isOpen = FALSE /\ d.isOnline = FALSE
       /\ d.isTransmitting = FALSE /\ d.transmitQueue = <<>>
       /\ d.state = next /\ d.timer = z.timer /\ d.currentRetry = c.currentRetry
       /\ d.refused = c.refused /\ d.records = c.records /\ d.removed = c.removed
       /\ d.request = c.request /\ d.shutdownHandler = y.shutdownHandler
       /\ x.shutdownHandler = c.shutdownHandler
  BY <1>2, <1>3, <1>5, <1>6, <1>10 DEF Same, Steady, Typed
<1>12. d.isOpening = FALSE /\ d.isReading = FALSE /\ d.isWriting = FALSE
  BY <1>11 DEF CallbacksPending, Steady, Typed, Flags
<1>13. Same(c, d, ChannelFields \ {"records", "removed", "request"})
  BY <1>11 DEF Same, Steady, Typed
<1>14. <<>> \in Seq(Sessions)
  OBVIOUS
<1>15. /\ d.timer \in Nat /\ d.currentRetry \in Nat \ {0} /\ d.refused = {}
       /\ d.timer # 0 <=> d.state = "Waiting"
       /\ d.up = c.up \ Enabled(c)
       /\ d.shutdownHandler = IF c.shutdownHandler # "None" /\ d.state = "Shutdown"
                              THEN "Set" ELSE c.shutdownHandler
  BY <1>3, <1>5, <1>8, <1>9, <1>10, <1>11 DEF Steady, Typed
<1> HIDE DEF next
<1>16. Sound(d, gone) /\ Outcome(c, d)
  BY <1>1, <1>11, <1>12, <1>13, <1>14, <1>15, RestIsSound DEF next
<1> QED BY <1>2, <1>7, <1>11, <1>16

\* The physical layer closes when nothing is under way any more.
LEMMA CheckForCloseSound ==
    ASSUME NEW c, NEW gone, Steady(c, gone)
    PROVE  Sound(CheckForClose(c), gone) /\ Outcome(c, CheckForClose(c))
<1>1. CASE Closable(c)
  BY <1>1, DownSound DEF CheckForClose, Closable
<1>2. CASE ~Closable(c)
  BY <1>2 DEF CheckForClose, Closable, Sound, Pending, Outcome
<1> QED BY <1>1, <1>2

\* The layer could not be opened, or was closed while it opened.
LEMMA OpenFailureSound ==
    ASSUME NEW c, NEW gone, Sound(c, gone), c.isOpening, NEW err \in BOOLEAN,
           err \/ c.isClosing
    PROVE  LET d == OnOpenFailure(CloseState([c EXCEPT !.isOpening = FALSE]))
           IN  Sound(d, gone) /\ Outcome(c, d)
<1> DEFINE w == [c EXCEPT !.isOpening = FALSE]
           x == CloseState(w)
           next == OpenFailureNext[c.state]
           y == ChangeState(x, next)
           z == IF y.state = "Waiting" THEN StartOpenTimer(y) ELSE y
           d == [z EXCEPT !.currentRetry = GetNextDelay(@)]
<1>1. /\ c.state \in Openings /\ c.state \in DOMAIN OpenFailureNext
      /\ c.isOpen = FALSE /\ c.isOnline = FALSE /\ c.isReading = FALSE /\ c.isWriting = FALSE
      /\ c.timer = 0
  BY NextStates DEF Sound, Steady, Physical, Openings, Onlines, Typed, Flags
<1>2. /\ Same(c, x, {"isOpening", "isClosing"}) /\ x.isOpening = FALSE /\ x.isClosing = FALSE
  <2>1. /\ Same(c, w, {"isOpening"}) /\ w.isOpening = FALSE /\ DOMAIN w = ChannelFields
        /\ w.isReading = FALSE /\ w.isWriting = FALSE /\ w.isOpen = FALSE
        /\ w.isClosing \in BOOLEAN
    BY <1>1 DEF Same, Sound, Steady, Typed, Flags
  <2> HIDE DEF w
  <2>2. CASE w.isClosing
    <3>1. Closable(w)
      BY <2>1, <2>2 DEF Closable, CallbacksPending
    <3> QED BY <2>1, <3>1 DEF CloseState, Same
  <2>3. CASE ~w.isClosing
    BY <2>1, <2>3 DEF CloseState, Closable, Same
  <2> QED BY <2>2, <2>3
<1> HIDE DEF x
<1>3. DOMAIN x = ChannelFields /\ x.state = c.state /\ x.shutdownHandler = c.shutdownHandler
  BY <1>2 DEF Same, Sound, Steady, Typed
<1>4. /\ Same(x, y, {"state", "shutdownHandler"}) /\ y.state = next
      /\ y.shutdownHandler = IF x.shutdownHandler # "None" /\ next = "Shutdown"
                             THEN "Set" ELSE x.shutdownHandler
  BY <1>3, ChangeStateEffect
<1> HIDE DEF y
<1>5. DOMAIN y = ChannelFields /\ y.timer = 0 /\ y.currentRetry \in Nat \ {0}
  BY <1>1, <1>2, <1>3, <1>4 DEF Same, Sound, Steady, Typed
<1>6. /\ Same(y, z, {"timer"}) /\ z.timer \in Nat
      /\ z.timer # 0 <=> y.state = "Waiting"
  BY <1>5, WaitEffect
<1>7. OnOpenFailure(x) = d
  <2>1. x.state \in DOMAIN OpenFailureNext
    BY <1>1, <1>3
  <2> QED BY <1>3, <2>1 DEF OnOpenFailure, y, z
<1> HIDE DEF z
<1>8. z.currentRetry \in Nat \ {0} /\ DOMAIN z = ChannelFields
  BY <1>5, <1>6 DEF Same
<1>9. /\ Same(z, d, {"currentRetry"}) /\ d.currentRetry \in Nat \ {0} /\ DOMAIN d = ChannelFields
  <2>1. GetNextDelay(z.currentRetry) \in Nat \ {0}
    BY <1>8, ChannelAssumption DEF GetNextDelay
  <2> QED BY <1>8, <2>1 DEF Same
<1> HIDE DEF d
<1>10. /\ d.isOpening = FALSE /\ d.isReading = FALSE /\ d.isWriting = FALSE
       /\ d.isClosing = FALSE /\ d.isOpen = FALSE /\ d.isOnline = FALSE
       /\ d.isTransmitting = c.isTransmitting /\ d.transmitQueue = c.transmitQueue
       /\ d.state = next /\ d.timer = z.timer /\ d.refused = c.refused
       /\ d.records = c.records /\ d.removed = c.removed /\ d.up = c.up
       /\ d.request = c.request /\ d.shutdownHandler = y.shutdownHandler
  BY <1>1, <1>2, <1>3, <1>4, <1>5, <1>6, <1>8, <1>9 DEF Same
<1>11. Same(c, d, ChannelFields \ {"records", "removed", "request"})
  BY <1>9, <1>10 DEF Same, Sound, Steady, Typed
<1>12. /\ d.timer \in Nat /\ d.refused = {}
       /\ d.timer # 0 <=> d.state = "Waiting"
       /\ d.isTransmitting \in BOOLEAN /\ d.transmitQueue \in Seq(Sessions)
       /\ d.isTransmitting => d.transmitQueue # <<>>
       /\ d.shutdownHandler = IF c.shutdownHandler # "None" /\ d.state = "Shutdown"
                              THEN "Set" ELSE c.shutdownHandler
  BY <1>3, <1>4, <1>6, <1>10 DEF Sound, Steady, Typed, Flags, Queued
<1>13. d.up = c.up \ Enabled(c)
  BY <1>1, <1>10 DEF Sound, Steady, Told, Bound, Enabled
<1> HIDE DEF next
<1>14. Sound(d, gone) /\ Outcome(c, d)
  BY <1>1, <1>9, <1>10, <1>11, <1>12, <1>13, RestIsSound DEF Sound, next
<1> QED BY <1>7, <1>14 DEF x

\* The layer is open: the enabled sessions are told, and only then may talk.
LEMMA OpenSuccessSound ==
    ASSUME NEW c, NEW gone, Sound(c, gone), c.isOpening, ~c.isClosing, NEW talkers
    PROVE  LET d == OnLowerLayerUp([c EXCEPT !.isOpening = FALSE, !.isOpen = TRUE], talkers)
           IN  /\ Sound(d, gone) /\ d.isOnline = TRUE /\ d.records = c.records
               /\ c.isOnline = FALSE /\ Enabled(c) # {}
               /\ d.shutdownHandler # "Set" /\ c.shutdownHandler # "Set"
               /\ d.request = c.request
<1> DEFINE w == [c EXCEPT !.isOpening = FALSE, !.isOpen = TRUE]
           x == ChangeState(w, "Open")
           y == [x EXCEPT !.isOnline = TRUE, !.currentRetry = MinRetry]
           b == [y EXCEPT !.isReading = TRUE]
           d == Raised(b, b.records, talkers)
<1>1. /\ c.state = "Opening" /\ c.isReading = FALSE /\ c.isWriting = FALSE /\ c.isOpen = FALSE
      /\ c.isOnline = FALSE /\ c.timer = 0 /\ c.request = "Start"
      /\ c.shutdownHandler = "None" /\ c.isClosing = FALSE
  <2>1. c.state = "Opening"
    BY DEF Sound, Steady, Physical, Openings
  <2>2. c.request = "Start" /\ c.shutdownHandler = "None"
    BY <2>1 DEF Sound, Steady, Requested
  <2> QED BY <2>1, <2>2 DEF Sound, Steady, Physical, Openings, Onlines, Typed, Flags
<1>2. /\ Same(c, w, {"isOpening", "isOpen"}) /\ w.isOpening = FALSE /\ w.isOpen = TRUE
      /\ DOMAIN w = ChannelFields /\ w.state = "Opening" /\ w.shutdownHandler = "None"
  BY <1>1 DEF Same, Sound, Steady, Typed
<1> HIDE DEF w
<1>3. /\ Same(w, x, {"state", "shutdownHandler"}) /\ x.state = "Open"
      /\ x.shutdownHandler = "None"
  BY <1>2, ChangeStateEffect
<1>4. OnLowerLayerUp(w, talkers) = OpenSuccessCallback(y, talkers)
  <2>1. w.state \in DOMAIN LayerOpenNext /\ LayerOpenNext[w.state] = "Open"
    BY <1>2 DEF LayerOpenNext
  <2> QED BY <2>1 DEF OnLowerLayerUp
<1> HIDE DEF x
<1>5. /\ Same(x, y, {"isOnline", "currentRetry"}) /\ y.isOnline = TRUE /\ y.currentRetry = MinRetry
      /\ DOMAIN y = ChannelFields
  BY <1>2, <1>3 DEF Same
<1> HIDE DEF y
<1>6. /\ y.isOpen = TRUE /\ y.isClosing = FALSE /\ y.isReading = FALSE
  BY <1>1, <1>2, <1>3, <1>5 DEF Same
<1>7. Same(y, b, {"isReading"}) /\ b.isReading = TRUE /\ DOMAIN b = ChannelFields
  BY <1>5 DEF Same
<1>8. OnLowerLayerUp(w, talkers) = d
  <2>1. BeginRead(y) = b
    BY <1>6 DEF BeginRead, CanRead
  <2>2. OpenSuccessCallback(y, talkers) = Raised(b, y.records, talkers)
    BY <2>1 DEF OpenSuccessCallback, Raised
  <2>3. y.records = b.records
    BY <1>5, <1>7 DEF Same
  <2> HIDE DEF b
  <2> QED BY <1>4, <2>2, <2>3
<1> HIDE DEF b
<1>9. /\ b.state = "Open" /\ b.timer = 0 /\ b.isOnline = TRUE /\ b.currentRetry = MinRetry
      /\ b.isOpen = TRUE /\ b.isOpening = FALSE /\ b.isReading = TRUE /\ b.isWriting = FALSE
      /\ b.isClosing = FALSE /\ b.records = c.records /\ b.transmitQueue = c.transmitQueue
      /\ b.isTransmitting = c.isTransmitting /\ b.up = c.up /\ b.request = "Start"
      /\ b.shutdownHandler = "None" /\ b.refused = {}
  BY <1>1, <1>2, <1>3, <1>5, <1>6, <1>7 DEF Same, Sound, Steady, Typed
<1>10. Typed(b) /\ Queued(b)
  <2>1. MinRetry \in Nat \ {0}
    BY ChannelAssumption
  <2>2. c.isTransmitting \in BOOLEAN
    BY DEF Sound, Steady, Typed, Flags
  <2>3. Typed(b)
    <3>1. \A f \in Flags : b[f] \in BOOLEAN
      BY <1>9, <2>2 DEF Flags
    <3>2. 0 \in Nat /\ c.transmitQueue \in Seq(Sessions) /\ Distinct(c.records)
      BY DEF Sound, Steady, Typed
    <3> QED BY <1>7, <1>9, <2>1, <3>1, <3>2 DEF Typed
  <2> QED BY <1>9, <2>3 DEF Sound, Steady, Queued
<1>11. Enabled(b) = Enabled(c) /\ Bound(b) = Bound(c) /\ Enabled(c) \subseteq Bound(c)
  BY <1>9 DEF Enabled, Bound
<1>12. b.up \cap Enabled(b) = {}
  BY <1>1, <1>9, <1>11 DEF Sound, Steady, Told
<1>13. Same(b, d, Opened) /\ Typed(d) /\ Queued(d) /\ d.up = b.up \cup Enabled(b)
  BY <1>9, <1>10, <1>12, AllUp
<1> HIDE DEF d
<1>14. /\ d.state = "Open" /\ d.timer = 0 /\ d.isOnline = TRUE /\ d.isOpen = TRUE
       /\ d.isOpening = FALSE /\ d.isClosing = FALSE /\ d.records = c.records
       /\ d.request = "Start" /\ d.shutdownHandler = "None"
  BY <1>7, <1>9, <1>13 DEF Same, Opened
<1>15. Physical(d) /\ Pending(d)
  BY <1>14 DEF Physical, Openings, Onlines, Offlines, Pending
<1>16. Enabled(d) = Enabled(c) /\ Bound(d) = Bound(c)
  BY <1>14 DEF Enabled, Bound
<1>17. Told(d, gone)
  <2>1. d.up = c.up \cup Enabled(c)
    BY <1>9, <1>11, <1>13
  <2> QED BY <1>1, <1>11, <1>14, <1>16, <2>1 DEF Sound, Steady, Told
<1>18. Requested(d) /\ Enabled(c) # {}
  BY <1>1, <1>14, <1>16 DEF Sound, Steady, Requested
<1>19. Sound(d, gone)
  BY <1>13, <1>15, <1>17, <1>18 DEF Sound, Steady
<1>20. /\ d.shutdownHandler # "Set" /\ c.shutdownHandler # "Set" /\ d.request = c.request
  BY <1>1, <1>14
<1> QED BY <1>1, <1>8, <1>14, <1>18, <1>19, <1>20 DEF w

----------------------------------------------------------------------------
(* The completions of the physical layer, and the timer.                    *)

\* A read or write that ends or starts, and the request to close an open layer.
LEMMA FlagsSteady ==
    ASSUME NEW c, NEW gone, Steady(c, gone), NEW d,
           Same(c, d, {"isReading", "isWriting", "isClosing", "sending", "canceled"}),
           d.isReading \in BOOLEAN, d.isWriting \in BOOLEAN, d.isClosing \in BOOLEAN,
           d.isReading => c.isReading, d.isWriting => c.isWriting,
           c.isClosing => d.isClosing, d.isClosing => c.isClosing \/ c.isOpen
    PROVE  /\ Steady(d, gone) /\ Outcome(c, d) /\ d.isOnline = c.isOnline
           /\ d.shutdownHandler = c.shutdownHandler /\ d.records = c.records
           /\ d.isTransmitting = c.isTransmitting /\ d.transmitQueue = c.transmitQueue
           /\ d.isOpen = c.isOpen
<1>1. /\ DOMAIN d = ChannelFields
      /\ d.state = c.state /\ d.timer = c.timer /\ d.isOnline = c.isOnline
      /\ d.currentRetry = c.currentRetry /\ d.isOpen = c.isOpen /\ d.isOpening = c.isOpening
      /\ d.records = c.records /\ d.transmitQueue = c.transmitQueue
      /\ d.isTransmitting = c.isTransmitting
      /\ d.up = c.up /\ d.request = c.request /\ d.shutdownHandler = c.shutdownHandler
      /\ d.refused = c.refused
  BY DEF Same, Steady, Typed
<1>2. Typed(d)
  <2>1. \A f \in Flags : d[f] \in BOOLEAN
    BY <1>1 DEF Steady, Typed, Flags
  <2> QED BY <1>1, <2>1 DEF Steady, Typed
<1>3. Physical(d) /\ Queued(d)
  BY <1>1 DEF Steady, Physical, Queued, Onlines, Openings
<1>4. Told(d, gone) /\ Requested(d) /\ Outcome(c, d)
  BY <1>1 DEF Steady, Told, Requested, Bound, Enabled, Outcome
<1> QED BY <1>1, <1>2, <1>3, <1>4 DEF Steady

\* One outcome after another.
LEMMA OutcomeTwice ==
    ASSUME NEW a, NEW b, NEW c, Outcome(a, b), Outcome(b, c)
    PROVE  Outcome(a, c)
BY DEF Outcome

\* A read that ends is followed by the next, or by the close.
LEMMA ReadSound ==
    ASSUME NEW c, NEW gone, Sound(c, gone), c.isReading, NEW err \in BOOLEAN, NEW talkers
    PROVE  LET d == OnReadCallback(c, err, talkers)
           IN  Sound(d, gone) /\ Outcome(c, d)
<1> DEFINE x == [c EXCEPT !.isReading = FALSE]
           y == CASE err -> IF x.isClosing THEN x ELSE StartClose(x)
                  [] ~err /\ ~x.isClosing -> OnReceive(x, talkers)
                  [] OTHER -> x
<1>1. c.isOpen /\ c.isOnline /\ \A f \in Flags : c[f] \in BOOLEAN
  BY DEF Sound, Steady, Physical, Typed
<1>2. Same(c, x, {"isReading"}) /\ x.isReading = FALSE /\ DOMAIN x = ChannelFields
  BY DEF Same, Sound, Steady, Typed
<1>3. OnReadCallback(c, err, talkers) = CheckForClose(y)
  BY DEF OnReadCallback
<1> HIDE DEF x
<1>4. x.isWriting = c.isWriting /\ x.isClosing = c.isClosing
  BY <1>2 DEF Same
<1>5. Steady(x, gone) /\ Outcome(c, x) /\ x.isOnline = c.isOnline /\ x.isOpen = c.isOpen
  <2>1. Same(c, x, {"isReading", "isWriting", "isClosing", "sending", "canceled"})
    BY <1>2 DEF Same
  <2> QED BY <1>1, <1>2, <1>4, <2>1, FlagsSteady DEF Sound, Flags
<1>6. Steady(y, gone) /\ Outcome(x, y)
  <2>1. CASE err /\ ~x.isClosing
    <3> DEFINE z == [x EXCEPT !.isClosing = TRUE]
    <3>1. y = z
      BY <1>1, <1>5, <2>1 DEF StartClose
    <3>2. /\ Same(x, z, {"isReading", "isWriting", "isClosing", "sending", "canceled"})
          /\ z.isClosing = TRUE /\ z.isReading = FALSE /\ z.isWriting = c.isWriting
      BY <1>2, <1>4 DEF Same
    <3> HIDE DEF z, y
    <3>3. Steady(z, gone) /\ Outcome(x, z)
      BY <1>1, <1>2, <1>4, <1>5, <3>2, FlagsSteady DEF Flags
    <3> QED BY <3>1, <3>3
  <2>2. CASE ~err /\ ~x.isClosing
    <3>1. y = OnReceive(x, talkers)
      BY <2>2
    <3> HIDE DEF y
    <3> DEFINE z == OnReceive(x, talkers)
    <3>2. /\ Steady(z, gone) /\ z.records = x.records /\ z.request = x.request
          /\ z.isOnline = x.isOnline /\ z.shutdownHandler = x.shutdownHandler
      BY <1>1, <1>5, <2>2, OnReceiveSteady
    <3> HIDE DEF z
    <3>3. Outcome(x, z)
      BY <3>2 DEF Outcome
    <3> QED BY <3>1, <3>2, <3>3 DEF z
  <2>3. CASE x.isClosing
    <3>1. y = x
      BY <2>3
    <3> QED BY <1>5, <3>1 DEF Outcome
  <2> QED BY <2>1, <2>2, <2>3
<1> HIDE DEF y
<1>7. Sound(CheckForClose(y), gone) /\ Outcome(y, CheckForClose(y))
  BY <1>6, CheckForCloseSound
<1> QED BY <1>3, <1>5, <1>6, <1>7, OutcomeTwice

\* The result of a write goes to the session at the head of the queue.
LEMMA OnSendResultWrites ==
    ASSUME NEW c, NEW gone, Steady(c, gone), c.isTransmitting, c.isOnline, c.isWriting = FALSE,
           NEW talkers
    PROVE  Writes(c, OnSendResult(c, talkers))
<1> DEFINE s == Head(c.transmitQueue)
           x == [c EXCEPT !.isTransmitting = FALSE, !.transmitQueue = Tail(@)]
           y == [x EXCEPT !.sending = @ \ {s}]
           z == OnTransmitResult(x, s, talkers)
<1>1. /\ c.transmitQueue # <<>> /\ s \in Sessions /\ Tail(c.transmitQueue) \in Seq(Sessions)
      /\ DOMAIN c = ChannelFields /\ Typed(c)
  BY DEF Steady, Queued, Typed
<1>2. OnSendResult(c, talkers) = CheckForSend(z)
  BY <1>1 DEF OnSendResult
<1>3. /\ Same(c, x, {"isTransmitting", "transmitQueue"}) /\ x.isTransmitting = FALSE
      /\ x.transmitQueue \in Seq(Sessions) /\ DOMAIN x = ChannelFields
  BY <1>1 DEF Same
<1>4. z = IF s \in x.removed THEN x ELSE Talk(y, s, talkers)
  BY DEF OnTransmitResult
<1> HIDE DEF x, s
<1>5. Same(x, y, {"sending"}) /\ DOMAIN y = ChannelFields
  BY <1>3 DEF Same
<1> HIDE DEF y, z
<1>6. Writes(c, x) /\ Writes(c, y)
  <2>1. /\ y.isTransmitting = FALSE /\ y.isWriting = FALSE /\ x.isWriting = FALSE
        /\ y.transmitQueue = x.transmitQueue
    BY <1>1, <1>3, <1>5 DEF Same
  <2> QED BY <1>1, <1>3, <1>5, <2>1 DEF Writes, Same, Queued
<1>7. /\ Typed(y) /\ Queued(y) /\ Typed(x) /\ Queued(x) /\ y.isOnline
  BY <1>1, <1>6, WritesTyped
<1>8. Writes(c, z)
  <2>1. Writes(y, Talk(y, s, talkers))
    BY <1>1, <1>7, TalkWrites
  <2>2. Writes(c, Talk(y, s, talkers))
    BY <1>1, <1>6, <2>1, WritesTwice
  <2> QED BY <1>4, <1>6, <2>2
<1>9. Typed(z) /\ Queued(z)
  BY <1>1, <1>8, WritesTyped
<1>10. Writes(z, CheckForSend(z))
  BY <1>9, CheckForSendWrites
<1> QED BY <1>1, <1>2, <1>8, <1>10, WritesTwice

\* A write that ends is followed by the next, or by the close.
LEMMA WriteSound ==
    ASSUME NEW c, NEW gone, Sound(c, gone), c.isWriting, NEW err \in BOOLEAN, NEW talkers
    PROVE  LET d == OnWriteCallback(c, err, talkers)
           IN  Sound(d, gone) /\ Outcome(c, d)
<1> DEFINE x == [c EXCEPT !.isWriting = FALSE]
           y == CASE err -> IF x.isClosing THEN x ELSE StartClose(x)
                  [] ~err /\ ~x.isClosing -> OnSendResult(x, talkers)
                  [] OTHER -> x
<1>1. c.isOpen /\ c.isOnline /\ c.isTransmitting /\ \A f \in Flags : c[f] \in BOOLEAN
  BY DEF Sound, Steady, Physical, Queued, Typed
<1>2. Same(c, x, {"isWriting"}) /\ x.isWriting = FALSE /\ DOMAIN x = ChannelFields
  BY DEF Same, Sound, Steady, Typed
<1>3. OnWriteCallback(c, err, talkers) = CheckForClose(y)
  BY DEF OnWriteCallback
<1> HIDE DEF x
<1>4. x.isReading = c.isReading /\ x.isClosing = c.isClosing
  BY <1>2 DEF Same
<1>5. /\ Steady(x, gone) /\ Outcome(c, x) /\ x.isOnline = c.isOnline /\ x.isOpen = c.isOpen
      /\ x.isTransmitting = c.isTransmitting
  <2>1. Same(c, x, {"isReading", "isWriting", "isClosing", "sending", "canceled"})
    BY <1>2 DEF Same
  <2> QED BY <1>1, <1>2, <1>4, <2>1, FlagsSteady DEF Sound, Flags
<1>6. Steady(y, gone) /\ Outcome(x, y)
  <2>1. CASE err /\ ~x.isClosing
    <3> DEFINE z == [x EXCEPT !.isClosing = TRUE]
    <3>1. y = z
      BY <1>1, <1>5, <2>1 DEF StartClose
    <3>2. /\ Same(x, z, {"isReading", "isWriting", "isClosing", "sending", "canceled"})
          /\ z.isClosing = TRUE /\ z.isWriting = FALSE /\ z.isReading = c.isReading
      BY <1>2, <1>4 DEF Same
    <3> HIDE DEF z, y
    <3>3. Steady(z, gone) /\ Outcome(x, z)
      BY <1>1, <1>2, <1>4, <1>5, <3>2, FlagsSteady DEF Flags
    <3> QED BY <3>1, <3>3
  <2>2. CASE ~err /\ ~x.isClosing
    <3>1. y = OnSendResult(x, talkers)
      BY <2>2
    <3> HIDE DEF y
    <3> DEFINE z == OnSendResult(x, talkers)
    <3>2. Writes(x, z)
      BY <1>1, <1>2, <1>5, OnSendResultWrites
    <3> HIDE DEF z
    <3>3. /\ Steady(z, gone) /\ z.records = x.records /\ z.request = x.request
          /\ z.isOnline = x.isOnline /\ z.shutdownHandler = x.shutdownHandler
      BY <1>5, <3>2, WritesSteady
    <3>4. Outcome(x, z)
      BY <3>3 DEF Outcome
    <3> QED BY <3>1, <3>3, <3>4 DEF z
  <2>3. CASE x.isClosing
    <3>1. y = x
      BY <2>3
    <3> QED BY <1>5, <3>1 DEF Outcome
  <2> QED BY <2>1, <2>2, <2>3
<1> HIDE DEF y
<1>7. Sound(CheckForClose(y), gone) /\ Outcome(y, CheckForClose(y))
  BY <1>6, CheckForCloseSound
<1> QED BY <1>3, <1>5, <1>6, <1>7, OutcomeTwice

\* A layer that is at rest opens.
LEMMA BeginOpenEffect ==
    ASSUME NEW c, c.isOpen = FALSE, c.isOpening = FALSE, c.isReading = FALSE,
           c.isWriting = FALSE, c.isClosing = FALSE
    PROVE  BeginOpen(c) = [c EXCEPT !.isOpening = TRUE]
BY DEF BeginOpen, IsClosed, CallbacksPending

\* When the time to wait is over, it opens.
LEMMA TimerSound ==
    ASSUME NEW c, NEW gone, Sound(c, gone), c.timer # 0
    PROVE  LET d == OnOpenTimerExpiration(c)
           IN  Sound(d, gone) /\ Outcome(c, d)
<1> DEFINE x == [c EXCEPT !.isOpening = TRUE]
           y == ChangeState(x, "Opening")
           d == [y EXCEPT !.timer = 0]
<1>1. /\ c.state = "Waiting" /\ c.isOnline = FALSE /\ c.isOpen = FALSE /\ c.isClosing = FALSE
      /\ c.isReading = FALSE /\ c.isWriting = FALSE /\ c.isOpening = FALSE
      /\ c.request = "Start"
  <2>1. c.state = "Waiting"
    BY DEF Sound, Steady, Physical
  <2>2. c.request = "Start"
    BY <2>1 DEF Sound, Steady, Requested
  <2> QED BY <2>1, <2>2 DEF Sound, Steady, Physical, Openings, Onlines, Typed, Flags
<1>2. BeginOpen(c) = x
  BY <1>1, BeginOpenEffect
<1>3. Same(c, x, {"isOpening"}) /\ x.isOpening = TRUE /\ DOMAIN x = ChannelFields
  BY DEF Same, Sound, Steady, Typed
<1> HIDE DEF x
<1>4. /\ Same(x, y, {"state", "shutdownHandler"}) /\ y.state = "Opening"
      /\ y.shutdownHandler = x.shutdownHandler /\ DOMAIN y = ChannelFields
  BY <1>3, ChangeStateEffect DEF Same
<1>5. OnOpenTimerExpiration(c) = d
  <2>1. c.state \in DOMAIN OpenTimeoutNext /\ OpenTimeoutNext[c.state] = "Opening"
    BY <1>1 DEF OpenTimeoutNext
  <2>2. y.timer # 0
    BY <1>3, <1>4 DEF Same
  <2> HIDE DEF y
  <2> QED BY <1>2, <2>1, <2>2 DEF OnOpenTimerExpiration, y
<1> HIDE DEF y
<1>6. /\ DOMAIN d = ChannelFields
      /\ d.state = "Opening" /\ d.timer = 0 /\ d.isOnline = FALSE /\ d.isOpen = FALSE
      /\ d.isOpening = TRUE /\ d.isReading = FALSE /\ d.isWriting = FALSE
      /\ d.isClosing = FALSE /\ d.records = c.records /\ d.transmitQueue = c.transmitQueue
      /\ d.isTransmitting = c.isTransmitting /\ d.up = c.up /\ d.request = "Start"
      /\ d.shutdownHandler = c.shutdownHandler /\ d.refused = c.refused
      /\ d.currentRetry = c.currentRetry
  BY <1>1, <1>3, <1>4 DEF Same, Sound, Steady, Typed
<1> HIDE DEF d
<1>7. Typed(d)
  <2>1. \A f \in Flags : d[f] \in BOOLEAN
    BY <1>6 DEF Sound, Steady, Typed, Flags
  <2> QED BY <1>6, <2>1 DEF Sound, Steady, Typed
<1>8. Physical(d) /\ Queued(d) /\ Pending(d)
  BY <1>6 DEF Sound, Steady, Physical, Queued, Pending, Openings, Onlines, Offlines
<1>9. Bound(d) = Bound(c) /\ Enabled(d) = Enabled(c)
  BY <1>6 DEF Bound, Enabled
<1>10. Told(d, gone) /\ Requested(d) /\ Outcome(c, d)
  BY <1>1, <1>6, <1>9 DEF Sound, Steady, Told, Requested, Outcome
<1> QED BY <1>5, <1>7, <1>8, <1>10 DEF Sound, Steady

----------------------------------------------------------------------------
(* The requests of the router.                                              *)

\* The channel before a request: of what was requested last only that it was
\* not the shutdown is known.
Eager(c, gone) ==
    /\ Typed(c) /\ Physical(c) /\ Queued(c) /\ Told(c, gone) /\ Pending(c)
    /\ c.request \in {"None", "Start", "Suspend"} /\ c.shutdownHandler = "None"
    /\ c.state \notin {"OpeningStopping", "ShutingDown", "Shutdown"}

\* A request changes the state and what belongs to it.
LEMMA RequestSteady ==
    ASSUME NEW c, NEW gone, Typed(c), Queued(c), Told(c, gone), NEW d,
           Same(c, d, {"state", "request", "isOpening", "isClosing", "timer", "canceled",
                       "shutdownHandler"}),
           d.timer \in Nat, d.isOpening \in BOOLEAN, d.isClosing \in BOOLEAN,
           Physical(d), Requested(d)
    PROVE  Steady(d, gone)
<1>1. /\ DOMAIN d = ChannelFields
      /\ d.isOnline = c.isOnline /\ d.currentRetry = c.currentRetry /\ d.isOpen = c.isOpen
      /\ d.isReading = c.isReading /\ d.isWriting = c.isWriting /\ d.records = c.records
      /\ d.transmitQueue = c.transmitQueue /\ d.isTransmitting = c.isTransmitting
      /\ d.up = c.up /\ d.refused = c.refused
  BY DEF Same, Typed
<1>2. Typed(d)
  <2>1. \A f \in Flags : d[f] \in BOOLEAN
    BY <1>1 DEF Typed, Flags
  <2> QED BY <1>1, <2>1 DEF Typed
<1>3. Queued(d) /\ Told(d, gone)
  BY <1>1 DEF Queued, Told, Bound, Enabled
<1> QED BY <1>2, <1>3 DEF Steady

\* The channel when the request r is noted, and when its state has changed too.
Noted(c, r) == [c EXCEPT !.request = r]
Moved(c, r, next) == [c EXCEPT !.request = r, !.state = next]

\* The state after a request, where the request is not ignored.
LEMMA RequestEffect ==
    ASSUME NEW c, DOMAIN c = ChannelFields, c.shutdownHandler = "None", NEW r,
           NEW table, c.state \in DOMAIN table,
           NEW next, NEW what, table[c.state] = <<next, what>>
    PROVE  Request(Noted(c, r), table) = MonitorDo(Moved(c, r, next), what)
<1> DEFINE x == Noted(c, r)
           y == ChangeState(x, next)
           d == Moved(c, r, next)
<1>1. /\ x.state = c.state /\ x.shutdownHandler = "None" /\ DOMAIN x = ChannelFields
      /\ [x EXCEPT !.state = next] = d /\ d.shutdownHandler = "None"
  BY DEF Noted, Moved
<1> HIDE DEF x, d
<1>2. y = d
  BY <1>1 DEF ChangeState, CheckForFinalShutdown
<1>3. Request(x, table) = MonitorDo(y, what)
  BY <1>1 DEF Request
<1> HIDE DEF y
<1> QED BY <1>2, <1>3 DEF x, d

\* A request that is ignored is only noted.
LEMMA RequestIgnored ==
    ASSUME NEW c, DOMAIN c = ChannelFields, NEW r, NEW table, c.state \notin DOMAIN table
    PROVE  Request(Noted(c, r), table) = Noted(c, r)
BY DEF Request, Noted

\* What they change.
LEMMA NotedMoved ==
    ASSUME NEW c, DOMAIN c = ChannelFields, NEW r, NEW next
    PROVE  /\ Same(c, Noted(c, r), {"request"}) /\ Noted(c, r).request = r
           /\ Same(c, Moved(c, r, next), {"state", "request"})
           /\ Moved(c, r, next).request = r /\ Moved(c, r, next).state = next
BY DEF Noted, Moved, Same

\* For an enabled session the channel connects, or will when it has closed.
LEMMA StartSound ==
    ASSUME NEW c, NEW gone, Eager(c, gone), Enabled(c) # {}
    PROVE  LET d == Start(c)
           IN  /\ Sound(d, gone) /\ d.records = c.records /\ d.isOnline = c.isOnline
               /\ d.shutdownHandler = "None"
<1> DEFINE d == Start(c)
           opens == c.state \in {"Init", "Suspended"}
           next == IF opens THEN "Opening" ELSE
                   IF c.state = "OpeningSuspending" THEN "OpeningClosing" ELSE
                   IF c.state = "Suspending" THEN "Closing" ELSE c.state
           n == Moved(c, "Start", next)
<1>1. DOMAIN c = ChannelFields /\ c.shutdownHandler = "None"
  BY DEF Eager, Typed
<1>2. DOMAIN StartNext = {"Init", "Suspended", "OpeningSuspending", "Suspending"}
  BY DEF StartNext
<1>3. Same(c, n, {"state", "request"}) /\ n.state = next /\ n.request = "Start"
  BY <1>1, NotedMoved
<1>4. opens => /\ c.isOpen = FALSE /\ c.isOpening = FALSE /\ c.isReading = FALSE
               /\ c.isWriting = FALSE /\ c.isClosing = FALSE /\ c.isOnline = FALSE
  BY DEF Eager, Physical, Typed, Flags, Openings, Onlines
<1>5. /\ Same(c, d, {"state", "request", "isOpening"}) /\ d.state = next /\ d.request = "Start"
      /\ (opens => d.isOpening = TRUE) /\ (~opens => d.isOpening = c.isOpening)
  <2>1. CASE opens
    <3>1. c.state \in DOMAIN StartNext /\ StartNext[c.state] = <<next, "Open">>
      BY <2>1 DEF StartNext
    <3> HIDE DEF next, opens
    <3>2. d = MonitorDo(n, "Open")
      BY <1>1, <3>1, RequestEffect DEF Start, Noted
    <3> HIDE DEF n, d
    <3>3. d = BeginOpen(n)
      BY <3>2 DEF MonitorDo
    <3>4. /\ n.isOpen = FALSE /\ n.isOpening = FALSE /\ n.isReading = FALSE
          /\ n.isWriting = FALSE /\ n.isClosing = FALSE
      BY <1>1, <1>3, <1>4, <2>1 DEF Same
    <3>5. d = [n EXCEPT !.isOpening = TRUE]
      BY <3>3, <3>4, BeginOpenEffect
    <3> QED BY <1>1, <1>3, <2>1, <3>5 DEF Same
  <2>2. CASE ~opens /\ c.state \in DOMAIN StartNext
    <3>1. StartNext[c.state] = <<next, "None">>
      BY <1>2, <2>2 DEF StartNext
    <3> HIDE DEF next, opens
    <3>2. d = MonitorDo(n, "None")
      BY <1>1, <2>2, <3>1, RequestEffect DEF Start, Noted
    <3> HIDE DEF n, d
    <3>3. d = n
      BY <3>2 DEF MonitorDo
    <3> QED BY <1>1, <1>3, <2>2, <3>3 DEF Same
  <2>3. CASE c.state \notin DOMAIN StartNext
    <3>1. d = Noted(c, "Start")
      BY <1>1, <2>3, RequestIgnored DEF Start, Noted
    <3>2. ~opens /\ next = c.state
      BY <1>2, <2>3
    <3> HIDE DEF next, opens, n, d
    <3>3. Same(c, d, {"request"}) /\ d.request = "Start"
      BY <1>1, <3>1, NotedMoved
    <3> QED BY <1>1, <3>2, <3>3 DEF Same
  <2> QED BY <2>1, <2>2, <2>3
<1> HIDE DEF d
<1>6. /\ d.isOnline = c.isOnline /\ d.isOpen = c.isOpen /\ d.timer = c.timer
      /\ d.isReading = c.isReading /\ d.isWriting = c.isWriting /\ d.isClosing = c.isClosing
      /\ d.records = c.records /\ d.shutdownHandler = "None"
  BY <1>1, <1>5 DEF Same
<1>7. next \in {"Opening", "OpeningClosing", "Open", "Closing", "Waiting"}
  BY DEF Eager, Physical, Openings, Onlines, Offlines
<1>8. Physical(d)
  BY <1>4, <1>5, <1>6 DEF Eager, Physical, Openings, Onlines, Offlines
<1>9. Enabled(d) = Enabled(c) /\ Bound(d) = Bound(c)
  BY <1>6 DEF Enabled, Bound
<1>10. Requested(d)
  BY <1>5, <1>6, <1>7, <1>9 DEF Requested
<1>11. Same(c, d, {"state", "request", "isOpening", "isClosing", "timer", "canceled",
                   "shutdownHandler"})
  BY <1>5 DEF Same
<1>12. /\ d.timer \in Nat /\ d.isOpening \in BOOLEAN /\ d.isClosing \in BOOLEAN
  BY <1>5, <1>6 DEF Eager, Typed, Flags
<1>13. Steady(d, gone)
  BY <1>8, <1>10, <1>11, <1>12, RequestSteady DEF Eager
<1>14. Pending(d)
  BY <1>4, <1>5, <1>6 DEF Eager, Pending, CallbacksPending
<1> QED BY <1>6, <1>13, <1>14 DEF Sound, d

\* When no session is enabled the channel closes, or waits no longer.
LEMMA SuspendSound ==
    ASSUME NEW c, NEW gone, Eager(c, gone), Enabled(c) = {}
    PROVE  LET d == Suspend(c)
           IN  /\ Sound(d, gone) /\ d.records = c.records /\ (d.isOnline => c.isOnline)
               /\ d.shutdownHandler = "None"
<1> DEFINE d == Suspend(c)
           closes == c.state \in {"Opening", "Open"}
           next == CASE c.state \in {"Opening", "OpeningClosing"} -> "OpeningSuspending"
                     [] c.state \in {"Open", "Closing"} -> "Suspending"
                     [] c.state = "Waiting" -> "Suspended"
                     [] OTHER -> c.state
           n == Moved(c, "Suspend", next)
           Reaches(e) ==
              /\ Same(c, e, {"state", "request", "isClosing", "timer", "canceled"})
              /\ e.state = next /\ e.request = "Suspend" /\ e.timer = 0
              /\ (closes => e.isClosing = TRUE) /\ (~closes => e.isClosing = c.isClosing)
<1>1. DOMAIN c = ChannelFields /\ c.shutdownHandler = "None" /\ \A f \in Flags : c[f] \in BOOLEAN
  BY DEF Eager, Typed
<1>2. DOMAIN SuspendNext = {"Opening", "OpeningClosing", "Open", "Closing", "Waiting"}
  BY DEF SuspendNext
<1>3. /\ Same(c, n, {"state", "request"}) /\ n.state = next /\ n.request = "Suspend"
      /\ n.timer = c.timer /\ n.isClosing = c.isClosing /\ DOMAIN n = ChannelFields
      /\ n.isOpen = c.isOpen /\ n.isOpening = c.isOpening
  <2> HIDE DEF next
  <2>1. Same(c, n, {"state", "request"}) /\ n.state = next /\ n.request = "Suspend"
    BY <1>1, NotedMoved
  <2> QED BY <1>1, <2>1 DEF Same
<1>4. /\ c.timer # 0 <=> c.state = "Waiting"
      /\ closes => c.isOpen \/ c.isOpening
      /\ c.state \in {"OpeningClosing", "OpeningSuspending", "Closing", "Suspending"} => c.isClosing
      /\ c.state \in {"Init", "Waiting", "Suspended"} => ~c.isClosing
      /\ c.state \in {"Init", "Opening", "OpeningClosing", "OpeningSuspending", "Open", "Closing",
                      "Suspending", "Waiting", "Suspended"}
  BY DEF Eager, Physical, Openings, Onlines, Offlines
<1>5. \E e : Reaches(e) /\ (~closes => d = e) /\ (closes => d = CheckForClose(e))
  <2>1. CASE closes
    <3>1. c.state \in DOMAIN SuspendNext /\ SuspendNext[c.state] = <<next, "Close">>
      BY <2>1 DEF SuspendNext
    <3>2. n.timer = 0
      BY <1>3, <1>4, <2>1
    <3> HIDE DEF next, closes
    <3>3. d = MonitorDo(n, "Close")
      BY <1>1, <3>1, RequestEffect DEF Suspend, Noted
    <3> HIDE DEF n, d
    <3>4. d = CheckForClose(StartClose(n))
      BY <3>3 DEF MonitorDo, BeginClose
    <3> DEFINE e == StartClose(n)
    <3>5. Reaches(e)
      <4>1. CASE c.isClosing
        <5>1. e = n /\ c.isClosing = TRUE
          BY <1>1, <1>3, <4>1 DEF StartClose, Flags
        <5> QED BY <1>1, <1>3, <2>1, <3>2, <5>1 DEF Same
      <4>2. CASE ~c.isClosing
        <5>1. e = [n EXCEPT !.isClosing = TRUE]
          BY <1>3, <1>4, <2>1, <4>2 DEF StartClose
        <5> QED BY <1>1, <1>3, <2>1, <3>2, <5>1 DEF Same
      <4> QED BY <4>1, <4>2
    <3> HIDE DEF Reaches
    <3> QED BY <2>1, <3>4, <3>5
  <2>2. CASE c.state \in {"OpeningClosing", "Closing"}
    <3>1. c.state \in DOMAIN SuspendNext /\ SuspendNext[c.state] = <<next, "None">> /\ ~closes
      BY <2>2 DEF SuspendNext
    <3>2. n.timer = 0
      BY <1>3, <1>4, <2>2
    <3> HIDE DEF next, closes
    <3>3. d = MonitorDo(n, "None")
      BY <1>1, <3>1, RequestEffect DEF Suspend, Noted
    <3> HIDE DEF n, d
    <3>4. d = n
      BY <3>3 DEF MonitorDo
    <3>5. Reaches(n)
      BY <1>1, <1>3, <3>1, <3>2 DEF Same
    <3> HIDE DEF Reaches
    <3> QED BY <3>1, <3>4, <3>5
  <2>3. CASE c.state = "Waiting"
    <3>1. c.state \in DOMAIN SuspendNext /\ SuspendNext[c.state] = <<next, "CancelTimer">> /\ ~closes
      BY <2>3 DEF SuspendNext
    <3>2. n.timer # 0
      BY <1>3, <1>4, <2>3
    <3> HIDE DEF next, closes
    <3>3. d = MonitorDo(n, "CancelTimer")
      BY <1>1, <3>1, RequestEffect DEF Suspend, Noted
    <3> HIDE DEF n, d
    <3> DEFINE e == [n EXCEPT !.timer = 0, !.canceled = @ + 1]
    <3>4. d = e
      BY <3>2, <3>3 DEF MonitorDo, CancelOpenTimer
    <3>5. Reaches(e)
      BY <1>1, <1>3, <3>1 DEF Same
    <3> HIDE DEF Reaches, e
    <3> QED BY <3>1, <3>4, <3>5
  <2>4. CASE c.state \notin DOMAIN SuspendNext
    <3>1. d = Noted(c, "Suspend")
      BY <1>1, <2>4, RequestIgnored DEF Suspend, Noted
    <3>2. ~closes /\ next = c.state /\ c.timer = 0
      BY <1>2, <1>4, <2>4
    <3> HIDE DEF next, closes, n, d
    <3>3. Same(c, d, {"request"}) /\ d.request = "Suspend"
      BY <1>1, <3>1, NotedMoved
    <3>4. Reaches(d)
      BY <1>1, <3>2, <3>3 DEF Same
    <3> HIDE DEF Reaches
    <3> QED BY <3>2, <3>4
  <2> QED BY <1>2, <2>1, <2>2, <2>3, <2>4
<1>6. PICK e : Reaches(e) /\ (~closes => d = e) /\ (closes => d = CheckForClose(e))
  BY <1>5
<1> HIDE DEF d
<1>7. /\ DOMAIN e = ChannelFields
      /\ e.isOnline = c.isOnline /\ e.isOpen = c.isOpen /\ e.isOpening = c.isOpening
      /\ e.isReading = c.isReading /\ e.isWriting = c.isWriting
      /\ e.records = c.records /\ e.shutdownHandler = "None"
  BY <1>1, <1>6 DEF Same
<1>8. Physical(e)
  BY <1>4, <1>6, <1>7 DEF Eager, Physical, Openings, Onlines, Offlines
<1>9. Enabled(e) = {} /\ Bound(e) = Bound(c)
  BY <1>7 DEF Enabled, Bound
<1>10. Requested(e)
  BY <1>4, <1>6, <1>7, <1>9 DEF Requested
<1>11. Same(c, e, {"state", "request", "isOpening", "isClosing", "timer", "canceled",
                   "shutdownHandler"})
  BY <1>6 DEF Same
<1>12. /\ e.timer \in Nat /\ e.isOpening \in BOOLEAN /\ e.isClosing \in BOOLEAN
  <2>1. c.isOpening \in BOOLEAN /\ c.isClosing \in BOOLEAN
    BY <1>1 DEF Flags
  <2> HIDE DEF next
  <2>2. e.isClosing \in BOOLEAN
    <3>1. (closes => e.isClosing = TRUE) /\ (~closes => e.isClosing = c.isClosing)
      BY <1>6
    <3> HIDE DEF closes
    <3> QED BY <2>1, <3>1
  <2>3. e.timer = 0 /\ e.isOpening = c.isOpening
    BY <1>6, <1>7
  <2> QED BY <2>1, <2>2, <2>3
<1>13. Steady(e, gone)
  BY <1>8, <1>10, <1>11, <1>12, RequestSteady DEF Eager
<1>14. ~closes => Pending(e)
  BY <1>6, <1>7 DEF Eager, Pending, CallbacksPending
<1>15. Sound(CheckForClose(e), gone) /\ Outcome(e, CheckForClose(e))
  BY <1>13, CheckForCloseSound
<1>16. CASE ~closes
  BY <1>6, <1>7, <1>13, <1>14, <1>16 DEF Sound, d
<1>17. CASE closes
  <2>1. d = CheckForClose(e)
    BY <1>6, <1>17
  <2>2. d.shutdownHandler = "None"
    BY <1>6, <1>15, <2>1 DEF Outcome, Sound, Steady, Requested
  <2> QED BY <1>7, <1>15, <2>1, <2>2 DEF Outcome, d
<1> QED BY <1>16, <1>17

\* The shutdown, of a channel that has no sessions any more, is reported at
\* once or when the layer has closed.
LEMMA ShutdownSound ==
    ASSUME NEW c, NEW gone, Sound(c, gone), Bound(c) = {}, c.request # "Shutdown"
    PROVE  LET d == CheckForFinalShutdown(Shutdown([c EXCEPT !.shutdownHandler = "Waiting"]))
           IN  /\ Sound(d, gone) /\ d.records = c.records /\ d.isOnline = c.isOnline
               /\ d.request = "Shutdown" /\ c.shutdownHandler = "None"
<1> DEFINE b == [c EXCEPT !.shutdownHandler = "Waiting"]
           x == [b EXCEPT !.request = "Shutdown"]
           next == ShutdownNext[c.state][1]
           y == ChangeState(x, next)
           d == CheckForFinalShutdown(y)
<1>1. Enabled(c) = {} /\ DOMAIN c = ChannelFields
  BY DEF Enabled, Bound, Sound, Steady, Typed
<1>2. /\ c.request \in {"None", "Suspend"} /\ c.shutdownHandler = "None"
      /\ c.state \in {"Init", "OpeningSuspending", "Suspending", "Suspended"}
  BY <1>1 DEF Sound, Steady, Requested
<1>3. /\ c.state \in DOMAIN ShutdownNext
      /\ ShutdownNext[c.state] = <<next, "None">>
      /\ c.state \in {"Init", "Suspended"} => next = "Shutdown"
      /\ c.state = "OpeningSuspending" => next = "OpeningStopping"
      /\ c.state = "Suspending" => next = "ShutingDown"
  BY <1>2 DEF ShutdownNext
<1> HIDE DEF next
<1>4. /\ Same(c, x, {"shutdownHandler", "request"}) /\ x.shutdownHandler = "Waiting"
      /\ x.request = "Shutdown" /\ DOMAIN x = ChannelFields /\ x.state = c.state
  BY <1>1 DEF Same
<1>5. Shutdown(b) = y
  <2> HIDE DEF b
  <2>1. Shutdown(b) = Request(x, ShutdownNext)
    BY DEF Shutdown
  <2> HIDE DEF x
  <2>2. Request(x, ShutdownNext) = MonitorDo(y, "None")
    BY <1>3, <1>4 DEF Request
  <2> HIDE DEF y
  <2> QED BY <2>1, <2>2 DEF MonitorDo
<1> HIDE DEF b, x
<1>6. /\ Same(x, y, {"state", "shutdownHandler"}) /\ y.state = next
      /\ y.shutdownHandler = IF next = "Shutdown" THEN "Set" ELSE "Waiting"
  BY <1>4, ChangeStateEffect
<1> HIDE DEF y
<1>7. Same(y, d, {})
  <2>1. GetState(y) = "SHUTDOWN" => y.state = "Shutdown"
    BY DEF GetState
  <2>2. DOMAIN y = ChannelFields
    BY <1>4, <1>6 DEF Same
  <2>3. y.state = "Shutdown" => y.shutdownHandler = "Set"
    BY <1>6
  <2> QED BY <2>1, <2>2, <2>3 DEF CheckForFinalShutdown, Same
<1> HIDE DEF d
<1>8. /\ DOMAIN d = ChannelFields
      /\ d.state = next /\ d.request = "Shutdown" /\ d.timer = c.timer
      /\ d.shutdownHandler = IF next = "Shutdown" THEN "Set" ELSE "Waiting"
      /\ d.isOnline = c.isOnline /\ d.isOpen = c.isOpen /\ d.isOpening = c.isOpening
      /\ d.isReading = c.isReading /\ d.isWriting = c.isWriting /\ d.isClosing = c.isClosing
      /\ d.records = c.records
  BY <1>1, <1>4, <1>6, <1>7 DEF Same
<1>9. Physical(d)
  BY <1>2, <1>3, <1>8 DEF Sound, Steady, Physical, Openings, Onlines, Offlines
<1>10. Enabled(d) = {} /\ Bound(d) = {}
  BY <1>1, <1>8 DEF Enabled, Bound
<1>11. Requested(d)
  BY <1>2, <1>3, <1>8, <1>10 DEF Requested
<1>12. Same(c, d, {"state", "request", "isOpening", "isClosing", "timer", "canceled",
                   "shutdownHandler"})
  BY <1>4, <1>6, <1>7 DEF Same
<1>13. d.timer \in Nat /\ d.isOpening \in BOOLEAN /\ d.isClosing \in BOOLEAN
  BY <1>8 DEF Sound, Steady, Typed, Flags
<1>14. Steady(d, gone)
  BY <1>9, <1>11, <1>12, <1>13, RequestSteady DEF Sound, Steady
<1>15. Pending(d)
  BY <1>8 DEF Sound, Pending, CallbacksPending
<1> QED BY <1>2, <1>5, <1>8, <1>14, <1>15 DEF Sound, d, b

----------------------------------------------------------------------------
(* The router's operations for the stacks.                                  *)

\* A session is enabled or disabled in its record.
LEMMA SetEnabledEffect ==
    ASSUME NEW c, Typed(c), NEW s \in Bound(c), NEW on \in BOOLEAN
    PROVE  LET d == SetEnabled(c, s, on)
           IN  /\ Same(c, d, {"records"}) /\ Distinct(d.records)
               /\ Bound(d) = Bound(c)
               /\ Enabled(d) = IF on THEN Enabled(c) \cup {s} ELSE Enabled(c) \ {s}
<1> DEFINE q == c.records
           n == Len(q)
           p == [i \in DOMAIN q |-> IF q[i].pContext = s THEN [q[i] EXCEPT !.enabled = on] ELSE q[i]]
           d == SetEnabled(c, s, on)
<1>1. q \in Seq(Record) /\ n \in Nat /\ DOMAIN q = 1 .. n /\ \A i \in 1 .. n : q[i] \in Record
  BY DEF Typed, Distinct
<1>2. Same(c, d, {"records"}) /\ d.records = p
  BY DEF SetEnabled, Same, Typed
<1>3. \A i \in 1 .. n : /\ p[i] \in Record /\ p[i].pContext = q[i].pContext
                        /\ p[i].enabled = IF q[i].pContext = s THEN on ELSE q[i].enabled
  BY <1>1 DEF Record
<1>4. p \in [1 .. n -> Record] /\ DOMAIN p = 1 .. n
  BY <1>1, <1>3
<1> HIDE DEF p
<1>5. p \in Seq(Record)
  BY <1>1, <1>4
<1>6. Distinct(p)
  BY <1>1, <1>3, <1>4, <1>5 DEF Typed, Distinct
<1> HIDE DEF d
<1>7. Range(d.records) = {p[i] : i \in 1 .. n} /\ Range(c.records) = {q[i] : i \in 1 .. n}
  BY <1>1, <1>2, <1>4 DEF Range
<1>8. Bound(d) = {p[i].pContext : i \in 1 .. n} /\ Bound(c) = {q[i].pContext : i \in 1 .. n}
  BY <1>7 DEF Bound
<1>9. Bound(d) = Bound(c)
  BY <1>3, <1>8
<1>10. /\ \A x : x \in Enabled(d) <=> \E i \in 1 .. n : p[i].enabled /\ x = p[i].pContext
       /\ \A x : x \in Enabled(c) <=> \E i \in 1 .. n : q[i].enabled /\ x = q[i].pContext
  BY <1>7 DEF Enabled
<1>11. PICK k \in 1 .. n : q[k].pContext = s
  BY <1>8
<1>12. Enabled(d) = IF on THEN Enabled(c) \cup {s} ELSE Enabled(c) \ {s}
  <2>1. ASSUME NEW x, x # s PROVE x \in Enabled(d) <=> x \in Enabled(c)
    BY <1>3, <1>10, <2>1
  <2>2. s \in Enabled(d) <=> on
    BY <1>3, <1>10, <1>11
  <2> QED BY <2>1, <2>2
<1> QED BY <1>2, <1>6, <1>9, <1>12 DEF d

\* Between two handlers a channel that has sessions is not being shut down.
LEMMA SoundIsEager ==
    ASSUME NEW c, NEW gone, Sound(c, gone), c.request # "Shutdown"
    PROVE  Eager(c, gone)
BY DEF Sound, Steady, Eager, Requested

\* The sessions and their records change, and nothing else.
LEMMA StillEager ==
    ASSUME NEW c, NEW gone, Eager(c, gone), NEW d, NEW h,
           Same(c, d, {"records", "up", "sending"}), Distinct(d.records), Told(d, h)
    PROVE  /\ Eager(d, h) /\ d.isOnline = c.isOnline /\ d.request = c.request
           /\ d.state = c.state /\ Typed(d)
<1>1. /\ DOMAIN d = ChannelFields
      /\ d.state = c.state /\ d.timer = c.timer /\ d.isOnline = c.isOnline
      /\ d.currentRetry = c.currentRetry /\ d.isOpen = c.isOpen /\ d.isOpening = c.isOpening
      /\ d.isReading = c.isReading /\ d.isWriting = c.isWriting /\ d.isClosing = c.isClosing
      /\ d.transmitQueue = c.transmitQueue /\ d.isTransmitting = c.isTransmitting
      /\ d.request = c.request /\ d.shutdownHandler = c.shutdownHandler
      /\ d.refused = c.refused
  BY DEF Same, Eager, Typed
<1>2. Typed(d)
  <2>1. \A f \in Flags : d[f] \in BOOLEAN
    BY <1>1 DEF Eager, Typed, Flags
  <2> QED BY <1>1, <2>1 DEF Eager, Typed
<1>3. Physical(d) /\ Queued(d) /\ Pending(d)
  BY <1>1 DEF Eager, Physical, Queued, Pending, CallbacksPending
<1> QED BY <1>1, <1>2, <1>3 DEF Eager

\* The length of a part of a sequence.
LEMMA PartLength ==
    ASSUME NEW X, NEW s \in Seq(X), NEW m \in Int, NEW n \in Int,
           1 <= m, n <= Len(s), m <= n + 1
    PROVE  Len(SubSeq(s, m, n)) = n - m + 1
OBVIOUS

\* The length of a concatenation.
LEMMA JoinLength ==
    ASSUME NEW X, NEW u \in Seq(X), NEW v \in Seq(X)
    PROVE  Len(u \o v) = Len(u) + Len(v)
OBVIOUS

\* A record is taken from where it is.
LEMMA RecordsRemove ==
    ASSUME NEW s, Distinct(s), NEW x \in Range(s)
    PROVE  Distinct(RemoveFirst(s, x)) /\ Range(RemoveFirst(s, x)) = Range(s) \ {x}
<1> DEFINE r == RemoveFirst(s, x)
           n == Len(s)
           X == Record
<1>1. s \in Seq(X) /\ n \in Nat /\ DOMAIN s = 1 .. n
  BY DEF Distinct
<1>2. Range(s) = {s[k] : k \in 1 .. n}
  BY <1>1 DEF Range
<1>3. \A k, m \in 1 .. n : s[k].pContext = s[m].pContext => k = m
  BY <1>1 DEF Distinct
<1>4. PICK p \in 1 .. n : s[p] = x
  BY <1>2
<1>5. r = SubSeq(s, 1, p - 1) \o SubSeq(s, p + 1, n)
  <2> DEFINE I == {k \in 1 .. Len(s) : s[k] = x}
  <2>1. I = {p}
    BY <1>3, <1>4
  <2>2. Min({p}) = p
    BY <1>1, <1>4 DEF Min
  <2>3. SelectInSeq(s, LAMBDA v : v = x) = p
    BY <2>1, <2>2 DEF SelectInSeq
  <2> QED BY <1>4, <2>3 DEF RemoveFirst, RemoveAt
<1> HIDE DEF X
<1>6. /\ r \in Seq(X) /\ Len(r) = n - 1 /\ DOMAIN r = 1 .. n - 1
      /\ \A k \in 1 .. n - 1 : r[k] = IF k < p THEN s[k] ELSE s[k + 1]
  <2> DEFINE u == SubSeq(s, 1, p - 1)
             v == SubSeq(s, p + 1, n)
  <2>1. u \in Seq(X) /\ Len(u) = p - 1
    BY <1>1, <1>4
  <2>2. \A k \in 1 .. p - 1 : u[k] = s[k]
    BY <1>1, <1>4
  <2>3. v \in Seq(X) /\ Len(v) = n - p
    <3>1. v \in Seq(X)
      BY <1>1, <1>4
    <3>2. p + 1 \in Int /\ n \in Int /\ 1 <= p + 1 /\ n <= Len(s) /\ p + 1 <= n + 1
      BY <1>1, <1>4
    <3>3. Len(v) = n - (p + 1) + 1
      BY <1>1, <3>2, PartLength
    <3>4. n - (p + 1) + 1 = n - p
      BY <1>1, <1>4
    <3> QED BY <3>1, <3>3, <3>4
  <2>4. \A k \in 1 .. n - p : v[k] = s[p + k]
    <3>1. ASSUME NEW k \in 1 .. n - p PROVE v[k] = s[(p + 1) + k - 1] /\ (p + 1) + k - 1 = p + k
      BY <1>1, <1>4
    <3> QED BY <3>1
  <2>5. r = u \o v
    BY <1>5
  <2> HIDE DEF u, v, r
  <2>6. r \in Seq(X) /\ Len(r) = (p - 1) + (n - p) /\ DOMAIN r = 1 .. Len(r)
    <3>1. r \in Seq(X)
      BY <2>1, <2>3, <2>5
    <3>2. Len(r) = (p - 1) + (n - p)
      BY <2>1, <2>3, <2>5, JoinLength
    <3> QED BY <3>1, <3>2
  <2>7. \A k \in 1 .. Len(r) : r[k] = IF k <= p - 1 THEN u[k] ELSE v[k - (p - 1)]
    BY <2>1, <2>3, <2>5, <2>6
  <2>8. Len(r) = n - 1
    BY <1>1, <1>4, <2>6
  <2>9. ASSUME NEW k \in 1 .. n - 1 PROVE r[k] = IF k < p THEN s[k] ELSE s[k + 1]
    <3>1. CASE k < p
      BY <1>1, <1>4, <2>2, <2>7, <2>8, <3>1
    <3>2. CASE ~(k < p)
      <4>1. k - (p - 1) \in 1 .. n - p /\ p + (k - (p - 1)) = k + 1 /\ ~(k <= p - 1)
        BY <1>1, <1>4, <3>2
      <4> QED BY <2>4, <2>7, <2>8, <3>2, <4>1
    <3> QED BY <3>1, <3>2
  <2> QED BY <2>6, <2>8, <2>9
<1> HIDE DEF r, n
<1>7. \A k, m \in DOMAIN r : r[k].pContext = r[m].pContext => k = m
  <2> SUFFICES ASSUME NEW k \in 1 .. n - 1, NEW m \in 1 .. n - 1,
                      r[k].pContext = r[m].pContext
               PROVE  k = m
    BY <1>6
  <2>1. k \in 1 .. n /\ m \in 1 .. n /\ k + 1 \in 1 .. n /\ m + 1 \in 1 .. n
    BY <1>1
  <2>2. (IF k < p THEN k ELSE k + 1) = (IF m < p THEN m ELSE m + 1)
    BY <1>3, <1>6, <2>1
  <2> QED BY <1>1, <1>4, <2>2
<1>8. Range(r) = Range(s) \ {x}
  <2>1. Range(r) = {r[k] : k \in 1 .. n - 1}
    BY <1>6 DEF Range
  <2>2. ASSUME NEW y \in Range(s), y # x PROVE y \in Range(r)
    <3>1. PICK k \in 1 .. n : y = s[k] /\ k # p
      BY <1>2, <1>4, <2>2
    <3>2. CASE k < p
      BY <1>1, <1>4, <1>6, <2>1, <3>1, <3>2
    <3>3. CASE k > p
      <4>1. k - 1 \in 1 .. n - 1 /\ ~(k - 1 < p) /\ (k - 1) + 1 = k
        BY <1>1, <1>4, <3>1, <3>3
      <4>2. r[k - 1] = y
        BY <1>6, <3>1, <4>1
      <4> QED BY <2>1, <4>1, <4>2
    <3> QED BY <1>1, <1>4, <3>1, <3>2, <3>3
  <2>3. ASSUME NEW y \in Range(r) PROVE y \in Range(s) /\ y # x
    <3>1. PICK k \in 1 .. n - 1 : y = r[k]
      BY <2>1
    <3>2. PICK m \in 1 .. n : m # p /\ y = s[m]
      BY <1>1, <1>4, <1>6, <3>1
    <3> QED BY <1>2, <1>3, <1>4, <3>2
  <2> QED BY <2>2, <2>3
<1> QED BY <1>6, <1>7, <1>8 DEF Distinct, r, X

\* A session that has no record gets one, and is not enabled.
LEMMA RecordsAppend ==
    ASSUME NEW c, Distinct(c.records), NEW s \in Sessions \ Bound(c)
    PROVE  LET q == Append(c.records, [pContext |-> s, enabled |-> FALSE])
           IN  /\ Distinct(q)
               /\ Range(q) = Range(c.records) \cup {[pContext |-> s, enabled |-> FALSE]}
<1> DEFINE x == [pContext |-> s, enabled |-> FALSE]
           p == c.records
           n == Len(p)
           q == Append(p, x)
<1>1. p \in Seq(Record) /\ n \in Nat /\ DOMAIN p = 1 .. n
  BY DEF Distinct
<1>2. x \in Record /\ x.pContext = s
  BY DEF Record
<1> HIDE DEF x
<1>3. /\ q \in Seq(Record) /\ DOMAIN q = 1 .. n + 1 /\ q[n + 1] = x
      /\ \A k \in 1 .. n : q[k] = p[k]
  BY <1>1, <1>2
<1> HIDE DEF q
<1>4. \A k \in 1 .. n : p[k].pContext # s
  BY <1>1 DEF Bound, Range
<1>5. \A k, m \in DOMAIN q : q[k].pContext = q[m].pContext => k = m
  <2> SUFFICES ASSUME NEW k \in 1 .. n + 1, NEW m \in 1 .. n + 1,
                      q[k].pContext = q[m].pContext
               PROVE  k = m
    BY <1>3
  <2>1. \A i, j \in 1 .. n : p[i].pContext = p[j].pContext => i = j
    BY <1>1 DEF Distinct
  <2> HIDE DEF p, n
  <2>2. (k \in 1 .. n \/ k = n + 1) /\ (m \in 1 .. n \/ m = n + 1)
    BY <1>1
  <2>3. CASE k \in 1 .. n /\ m \in 1 .. n
    BY <1>3, <2>1, <2>3
  <2>4. CASE k \in 1 .. n /\ m = n + 1
    BY <1>2, <1>3, <1>4, <2>4
  <2>5. CASE k = n + 1 /\ m \in 1 .. n
    BY <1>2, <1>3, <1>4, <2>5
  <2> QED BY <2>2, <2>3, <2>4, <2>5
<1>6. Range(q) = Range(p) \cup {x}
  <2>1. Range(q) = {q[k] : k \in 1 .. n + 1} /\ Range(p) = {p[k] : k \in 1 .. n}
    BY <1>1, <1>3 DEF Range
  <2>2. 1 .. n + 1 = (1 .. n) \cup {n + 1}
    BY <1>1
  <2> QED BY <1>3, <2>1, <2>2
<1> QED BY <1>3, <1>5, <1>6 DEF Distinct, q, x

\* The last session that is disabled suspends the channel.
LEMMA SuspendIfUnusedSound ==
    ASSUME NEW c, NEW gone, Eager(c, gone),
           Enabled(c) # {} =>
              /\ c.request = "Start"
              /\ c.state \in {"Opening", "OpeningClosing", "Open", "Closing", "Waiting"}
    PROVE  LET d == SuspendIfUnused(c)
           IN  /\ Sound(d, gone) /\ d.records = c.records /\ (d.isOnline => c.isOnline)
               /\ d.shutdownHandler = "None" /\ (Enabled(c) # {} => d = c)
<1>1. CASE Enabled(c) = {}
  BY <1>1, SuspendSound DEF SuspendIfUnused
<1>2. CASE Enabled(c) # {}
  <2>1. SuspendIfUnused(c) = c
    BY <1>2 DEF SuspendIfUnused
  <2>2. Requested(c)
    BY <1>2 DEF Requested, Eager
  <2> QED BY <1>2, <2>1, <2>2 DEF Eager, Sound, Steady
<1> QED BY <1>1, <1>2

\* A session has one record.
LEMMA OneRecord ==
    ASSUME NEW c, Distinct(c.records), NEW r \in Range(c.records), NEW t \in Range(c.records),
           r.pContext = t.pContext
    PROVE  r = t
<1>1. DOMAIN c.records = 1 .. Len(c.records)
  BY DEF Distinct
<1>2. PICK i \in DOMAIN c.records : c.records[i] = r
  BY DEF Range
<1>3. PICK j \in DOMAIN c.records : c.records[j] = t
  BY DEF Range
<1> QED BY <1>2, <1>3 DEF Distinct

\* Who is told the truth may be enabled or disabled, if he is told.
LEMMA ToldAfter ==
    ASSUME NEW c, NEW d, NEW gone, Told(c, gone), NEW s \in Bound(c),
           Bound(d) = Bound(c), d.isOnline = c.isOnline, Enabled(c) \subseteq Bound(c),
           \/ Enabled(d) = Enabled(c) \cup {s} /\ d.up = IF c.isOnline THEN c.up \cup {s} ELSE c.up
           \/ Enabled(d) = Enabled(c) \ {s} /\ d.up = IF c.isOnline THEN c.up \ {s} ELSE c.up
    PROVE  Told(d, gone)
<1>1. CASE c.isOnline
  BY <1>1 DEF Told
<1>2. CASE ~c.isOnline
  BY <1>2 DEF Told
<1> QED BY <1>1, <1>2

\* Handing over a frame does not disturb a channel before a request.
LEMMA WritesEager ==
    ASSUME NEW c, NEW d, NEW gone, Eager(c, gone), Writes(c, d)
    PROVE  Eager(d, gone) /\ d.records = c.records /\ d.isOnline = c.isOnline
<1>1. /\ d.state = c.state /\ d.timer = c.timer /\ d.isOnline = c.isOnline
      /\ d.isOpen = c.isOpen /\ d.isOpening = c.isOpening
      /\ d.isReading = c.isReading /\ d.isClosing = c.isClosing /\ d.records = c.records
      /\ d.up = c.up /\ d.request = c.request /\ d.shutdownHandler = c.shutdownHandler
  BY DEF Writes, Same, Eager, Typed
<1>2. Typed(d) /\ Queued(d)
  BY WritesTyped DEF Eager
<1>3. Physical(d)
  BY <1>1 DEF Writes, Eager, Physical
<1>4. Told(d, gone) /\ Pending(d)
  BY <1>1 DEF Writes, Eager, Told, Bound, Enabled, Pending, CallbacksPending
<1> QED BY <1>1, <1>2, <1>3, <1>4 DEF Eager

\* The channel has sessions, so it is not being shut down.
LEMMA BoundIsEager ==
    ASSUME NEW c, NEW gone, Sound(c, gone), Bound(c) # {}
    PROVE  Eager(c, gone) /\ Typed(c) /\ Told(c, gone) /\ c.shutdownHandler = "None"
<1>1. c.request # "Shutdown"
  BY DEF Sound, Steady, Requested
<1> QED BY <1>1, SoundIsEager DEF Eager

\* A session is enabled: it is told of a connection, and the channel starts.
LEMMA EnableSound ==
    ASSUME NEW c, NEW gone, Sound(c, gone), NEW s \in Bound(c), NEW talkers
    PROVE  LET d == Enable(c, s, talkers)
           IN  /\ Sound(d, gone) /\ Bound(d) = Bound(c) /\ Enabled(d) = Enabled(c) \cup {s}
               /\ d.isOnline = c.isOnline
               /\ d.shutdownHandler = "None" /\ c.shutdownHandler = "None"
<1> DEFINE x == SetEnabled(c, s, TRUE)
           y == IF c.isOnline THEN SessionUp(x, s) ELSE x
           z == IF c.isOnline THEN Talk(SessionUp(x, s), s, talkers) ELSE x
           d == Enable(c, s, talkers)
<1>1. Eager(c, gone) /\ Typed(c) /\ Told(c, gone) /\ c.shutdownHandler = "None"
  BY BoundIsEager
<1>2. Enabled(c) \subseteq Bound(c) /\ Bound(c) \subseteq Sessions /\ c.isOnline \in BOOLEAN
  BY <1>1, RecordFacts DEF Typed, Flags
<1>3. CASE s \in Enabled(c)
  <2>1. d = c
    BY <1>3 DEF Enable
  <2> HIDE DEF d
  <2> QED BY <1>1, <1>3, <2>1 DEF d
<1>4. CASE s \notin Enabled(c)
  <2>1. d = Start(z)
    BY <1>4 DEF Enable
  <2>2. /\ Same(c, x, {"records"}) /\ Distinct(x.records) /\ Bound(x) = Bound(c)
        /\ Enabled(x) = Enabled(c) \cup {s}
    BY <1>1, SetEnabledEffect
  <2> HIDE DEF x
  <2>3. /\ Same(c, y, {"records", "up", "sending"}) /\ y.records = x.records
        /\ y.up = IF c.isOnline THEN c.up \cup {s} ELSE c.up
    <3>1. x.up = c.up /\ DOMAIN x = ChannelFields
      BY <1>1, <2>2 DEF Same, Typed
    <3>2. CASE c.isOnline
      <4>1. s \notin x.up
        BY <1>1, <1>4, <3>1, <3>2 DEF Told
      <4>2. y = [x EXCEPT !.up = @ \cup {s}]
        BY <3>2, <4>1 DEF SessionUp
      <4> QED BY <1>1, <2>2, <3>1, <3>2, <4>2 DEF Same, Typed
    <3>3. CASE ~c.isOnline
      BY <1>1, <2>2, <3>1, <3>3 DEF Same, Typed
    <3> QED BY <3>2, <3>3
  <2>4. z = IF c.isOnline THEN Talk(y, s, talkers) ELSE y
    OBVIOUS
  <2>5. d = Start(z) /\ s \in Sessions
    BY <1>2, <2>1
  <2> HIDE DEF y, z, d
  <2>6. Bound(y) = Bound(c) /\ Enabled(y) = Enabled(c) \cup {s} /\ y.isOnline = c.isOnline
    BY <1>1, <2>2, <2>3 DEF Bound, Enabled, Same, Typed
  <2>7. Told(y, gone)
    BY <1>1, <1>2, <2>3, <2>6, ToldAfter
  <2>8. Eager(y, gone)
    BY <1>1, <2>2, <2>3, <2>7, StillEager
  <2>9. Eager(z, gone) /\ z.records = y.records /\ z.isOnline = y.isOnline
    <3>1. CASE c.isOnline
      <4>1. Writes(y, Talk(y, s, talkers))
        BY <2>5, <2>6, <2>8, <3>1, TalkWrites DEF Eager
      <4> QED BY <2>4, <2>8, <3>1, <4>1, WritesEager
    <3>2. CASE ~c.isOnline
      BY <2>4, <2>8, <3>2
    <3> QED BY <3>1, <3>2
  <2>10. Bound(z) = Bound(c) /\ Enabled(z) = Enabled(c) \cup {s}
    BY <2>6, <2>9 DEF Bound, Enabled
  <2>11. /\ Sound(d, gone) /\ d.records = z.records /\ d.isOnline = z.isOnline
         /\ d.shutdownHandler = "None"
    BY <2>5, <2>9, <2>10, StartSound
  <2>12. Bound(d) = Bound(z) /\ Enabled(d) = Enabled(z)
    BY <2>11 DEF Bound, Enabled
  <2> QED BY <1>1, <2>6, <2>9, <2>10, <2>11, <2>12 DEF d
<1> QED BY <1>3, <1>4

\* A session is disabled: it is told, and without others the channel goes.
LEMMA DisableSound ==
    ASSUME NEW c, NEW gone, Sound(c, gone), NEW s \in Bound(c)
    PROVE  LET d == Disable(c, s)
           IN  /\ Sound(d, gone) /\ Bound(d) = Bound(c) /\ Enabled(d) = Enabled(c) \ {s}
               /\ (d.isOnline => c.isOnline) /\ (Enabled(d) # {} => d.isOnline = c.isOnline)
               /\ (s \notin Enabled(c) => d = c)
               /\ d.shutdownHandler = "None" /\ c.shutdownHandler = "None"
<1> DEFINE x == SetEnabled(c, s, FALSE)
           y == IF c.isOnline THEN SessionDown(x, s) ELSE x
           d == Disable(c, s)
<1>1. Eager(c, gone) /\ Typed(c) /\ Told(c, gone) /\ c.shutdownHandler = "None"
  BY BoundIsEager
<1>2. Enabled(c) \subseteq Bound(c) /\ c.isOnline \in BOOLEAN
  BY <1>1, RecordFacts DEF Typed, Flags
<1>3. CASE s \notin Enabled(c)
  <2>1. d = c
    BY <1>3 DEF Disable
  <2> HIDE DEF d
  <2>2. Enabled(c) \ {s} = Enabled(c)
    BY <1>3
  <2> QED BY <1>1, <1>3, <2>1, <2>2 DEF d
<1>4. CASE s \in Enabled(c)
  <2>1. d = SuspendIfUnused(y)
    BY <1>4 DEF Disable
  <2>2. /\ Same(c, x, {"records"}) /\ Distinct(x.records) /\ Bound(x) = Bound(c)
        /\ Enabled(x) = Enabled(c) \ {s}
    BY <1>1, SetEnabledEffect
  <2> HIDE DEF x
  <2>3. /\ Same(c, y, {"records", "up", "sending"}) /\ y.records = x.records
        /\ y.up = IF c.isOnline THEN c.up \ {s} ELSE c.up
    <3>1. x.up = c.up /\ DOMAIN x = ChannelFields
      BY <1>1, <2>2 DEF Same, Typed
    <3>2. CASE c.isOnline
      <4>1. s \in x.up
        BY <1>1, <1>4, <3>1, <3>2 DEF Told
      <4>2. y = [x EXCEPT !.up = @ \ {s}, !.sending = @ \ {s}]
        BY <3>2, <4>1 DEF SessionDown
      <4> QED BY <1>1, <2>2, <3>1, <3>2, <4>2, ZenonT(30) DEF Same, Typed
    <3>3. CASE ~c.isOnline
      BY <1>1, <2>2, <3>1, <3>3 DEF Same, Typed
    <3> QED BY <3>2, <3>3
  <2> HIDE DEF y, d
  <2>4. Bound(y) = Bound(c) /\ Enabled(y) = Enabled(c) \ {s} /\ y.isOnline = c.isOnline
    BY <1>1, <2>2, <2>3 DEF Bound, Enabled, Same, Typed
  <2>5. Told(y, gone)
    BY <1>1, <1>2, <2>3, <2>4, ToldAfter
  <2>6. Eager(y, gone) /\ y.request = c.request /\ y.state = c.state
    BY <1>1, <2>2, <2>3, <2>5, StillEager
  <2>7. /\ y.request = "Start"
        /\ y.state \in {"Opening", "OpeningClosing", "Open", "Closing", "Waiting"}
    BY <1>4, <2>6 DEF Sound, Steady, Requested
  <2>8. /\ Sound(d, gone) /\ d.records = y.records /\ (d.isOnline => y.isOnline)
        /\ d.shutdownHandler = "None" /\ (Enabled(y) # {} => d = y)
    BY <2>1, <2>6, <2>7, SuspendIfUnusedSound
  <2>9. Bound(d) = Bound(y) /\ Enabled(d) = Enabled(y)
    BY <2>8 DEF Bound, Enabled
  <2>10. d.isOnline => c.isOnline
    BY <2>4, <2>8
  <2>11. Enabled(d) # {} => d.isOnline = c.isOnline
    BY <2>4, <2>8, <2>9
  <2> QED BY <1>1, <1>4, <2>4, <2>8, <2>9, <2>10, <2>11 DEF d
<1> QED BY <1>3, <1>4

\* A stack is removed: its session has no record any more.
LEMMA RemoveSound ==
    ASSUME NEW c, NEW gone, Sound(c, gone), NEW s \in Bound(c)
    PROVE  LET d == RemoveContext(c, s)
           IN  /\ Sound(d, gone \cup {s}) /\ Bound(d) = Bound(c) \ {s}
               /\ Enabled(d) = Enabled(c) \ {s}
               /\ (d.isOnline => c.isOnline) /\ (Enabled(d) # {} => d.isOnline = c.isOnline)
               /\ d.shutdownHandler = "None" /\ c.shutdownHandler = "None"
<1> DEFINE x == IF GetState(c) = "OPEN" /\ s \in Enabled(c) THEN SessionDown(c, s) ELSE c
           r == [pContext |-> s, enabled |-> s \in Enabled(c)]
           y == [x EXCEPT !.records = RemoveFirst(@, r)]
           d == RemoveContext(c, s)
<1>1. Eager(c, gone) /\ Typed(c) /\ Told(c, gone) /\ c.shutdownHandler = "None"
  BY BoundIsEager
<1>2. Enabled(c) \subseteq Bound(c) /\ c.isOnline \in BOOLEAN
  BY <1>1, RecordFacts DEF Typed, Flags
<1>3. d = SuspendIfUnused(y)
  BY DEF RemoveContext
<1>4. \A t \in Range(c.records) : t.pContext = s <=> t = r
  <2>1. PICK t \in Range(c.records) : t.pContext = s
    BY DEF Bound
  <2>2. \A v \in Range(c.records) : v.pContext = s => v = t
    BY <1>1, <2>1, OneRecord DEF Typed
  <2>3. t \in Record
    BY <1>1, <2>1 DEF Typed, Distinct, Range
  <2>4. s \in Enabled(c) <=> t.enabled
    BY <2>1, <2>2 DEF Enabled
  <2>5. t.enabled = (s \in Enabled(c))
    BY <2>3, <2>4 DEF Record
  <2>6. t = [pContext |-> t.pContext, enabled |-> t.enabled]
    BY <2>3 DEF Record
  <2>7. t = r
    BY <2>1, <2>5, <2>6
  <2> QED BY <2>1, <2>2, <2>7
<1>5. r \in Range(c.records)
  BY <1>4 DEF Bound
<1> HIDE DEF r
<1>6. /\ Same(c, x, {"up", "sending"}) /\ x.records = c.records
      /\ x.up = c.up \/ x.up = c.up \ {s}
      /\ DOMAIN x = ChannelFields
  <2>1. CASE GetState(c) = "OPEN" /\ s \in Enabled(c)
    <3>1. c.isOnline
      BY <1>1, <2>1 DEF GetState, Eager, Physical, Openings, Onlines, Offlines
    <3>2. s \in c.up
      BY <1>1, <2>1, <3>1 DEF Told
    <3>3. x = [c EXCEPT !.up = @ \ {s}, !.sending = @ \ {s}]
      BY <2>1, <3>2 DEF SessionDown
    <3> QED BY <1>1, <3>3 DEF Same, Typed
  <2>2. CASE ~(GetState(c) = "OPEN" /\ s \in Enabled(c))
    BY <1>1, <2>2 DEF Same, Typed
  <2> QED BY <2>1, <2>2
<1> HIDE DEF x
<1>7. /\ Same(c, y, {"records", "up", "sending"}) /\ y.records = RemoveFirst(c.records, r)
      /\ y.up = c.up \/ y.up = c.up \ {s}
      /\ y.isOnline = c.isOnline
  BY <1>1, <1>6 DEF Same, Typed
<1>8. Distinct(y.records) /\ Range(y.records) = Range(c.records) \ {r}
  BY <1>1, <1>5, <1>7, RecordsRemove DEF Typed
<1> HIDE DEF y, d
<1>9. Bound(y) = Bound(c) \ {s} /\ Enabled(y) = Enabled(c) \ {s}
  <2>1. \A t : t \in Range(y.records) <=> t \in Range(c.records) /\ t.pContext # s
    BY <1>4, <1>8
  <2> QED BY <2>1 DEF Bound, Enabled
<1>10. Told(y, gone \cup {s})
  BY <1>1, <1>2, <1>7, <1>9 DEF Told
<1>11. /\ Eager(y, gone \cup {s}) /\ y.request = c.request /\ y.state = c.state
  BY <1>1, <1>7, <1>8, <1>10, StillEager
<1>12. Enabled(y) # {} =>
          /\ y.request = "Start"
          /\ y.state \in {"Opening", "OpeningClosing", "Open", "Closing", "Waiting"}
  BY <1>9, <1>11 DEF Sound, Steady, Requested
<1>13. /\ Sound(d, gone \cup {s}) /\ d.records = y.records /\ (d.isOnline => y.isOnline)
       /\ d.shutdownHandler = "None" /\ (Enabled(y) # {} => d = y)
  BY <1>3, <1>11, <1>12, SuspendIfUnusedSound
<1>14. Bound(d) = Bound(y) /\ Enabled(d) = Enabled(y)
  BY <1>13 DEF Bound, Enabled
<1>15. /\ d.isOnline => c.isOnline
       /\ Enabled(d) # {} => d.isOnline = c.isOnline
  BY <1>7, <1>13, <1>14
<1> QED BY <1>1, <1>9, <1>13, <1>14, <1>15 DEF d

\* The sessions and their records change, and nothing else.
LEMMA StillSound ==
    ASSUME NEW c, NEW gone, Sound(c, gone), NEW d, NEW h,
           Same(c, d, {"records", "up", "sending", "removed", "canceled"}),
           Distinct(d.records), Told(d, h), Enabled(d) = Enabled(c),
           c.request = "Shutdown" => Bound(d) = {}
    PROVE  /\ Sound(d, h) /\ d.isOnline = c.isOnline /\ d.request = c.request
           /\ d.shutdownHandler = c.shutdownHandler
<1>1. /\ DOMAIN d = ChannelFields
      /\ d.state = c.state /\ d.timer = c.timer /\ d.isOnline = c.isOnline
      /\ d.currentRetry = c.currentRetry /\ d.isOpen = c.isOpen /\ d.isOpening = c.isOpening
      /\ d.isReading = c.isReading /\ d.isWriting = c.isWriting /\ d.isClosing = c.isClosing
      /\ d.transmitQueue = c.transmitQueue /\ d.isTransmitting = c.isTransmitting
      /\ d.request = c.request /\ d.shutdownHandler = c.shutdownHandler
      /\ d.refused = c.refused
  BY DEF Same, Sound, Steady, Typed
<1>2. Typed(d)
  <2>1. \A f \in Flags : d[f] \in BOOLEAN
    BY <1>1 DEF Sound, Steady, Typed, Flags
  <2> QED BY <1>1, <2>1 DEF Sound, Steady, Typed
<1>3. Physical(d) /\ Queued(d) /\ Pending(d)
  BY <1>1 DEF Sound, Steady, Physical, Queued, Pending, CallbacksPending
<1>4. Requested(d)
  BY <1>1 DEF Sound, Steady, Requested
<1> QED BY <1>1, <1>2, <1>3, <1>4 DEF Sound, Steady

\* A stack is added, unless its route is taken.
LEMMA AddSound ==
    ASSUME NEW c, NEW gone, Sound(c, gone), c.request # "Shutdown",
           NEW s \in Sessions, s \notin Bound(c), s \notin gone
    PROVE  LET d == AddContext(c, s)
           IN  /\ Sound(d, gone) /\ Bound(c) \subseteq Bound(d) /\ Bound(d) \subseteq Bound(c) \cup {s}
               /\ Enabled(d) = Enabled(c) /\ d.isOnline = c.isOnline /\ d.request = c.request
               /\ d.shutdownHandler = c.shutdownHandler
<1> DEFINE r == [pContext |-> s, enabled |-> FALSE]
           y == [c EXCEPT !.records = Append(@, r)]
           d == AddContext(c, s)
<1>1. CASE Route[s] \in {Route[x] : x \in Bound(c)}
  <2>1. d = c
    BY <1>1 DEF AddContext
  <2> QED BY <2>1
<1>2. CASE ~(Route[s] \in {Route[x] : x \in Bound(c)})
  <2>1. d = y
    BY <1>2 DEF AddContext
  <2>2. /\ Distinct(Append(c.records, r))
        /\ Range(Append(c.records, r)) = Range(c.records) \cup {r}
    <3>1. Distinct(c.records) /\ s \in Sessions \ Bound(c)
      BY DEF Sound, Steady, Typed
    <3> QED BY <3>1, RecordsAppend
  <2>3. r.pContext = s /\ r.enabled = FALSE
    OBVIOUS
  <2> HIDE DEF r
  <2>4. /\ Same(c, y, {"records"}) /\ y.records = Append(c.records, r) /\ y.up = c.up
        /\ y.isOnline = c.isOnline
    BY DEF Same, Sound, Steady, Typed
  <2> HIDE DEF y, d
  <2>5. Distinct(y.records) /\ Range(y.records) = Range(c.records) \cup {r}
    BY <2>2, <2>4
  <2>6. Bound(y) = Bound(c) \cup {s} /\ Enabled(y) = Enabled(c)
    BY <2>3, <2>5 DEF Bound, Enabled
  <2>7. Told(y, gone)
    BY <2>4, <2>6 DEF Sound, Steady, Told
  <2>8. Same(c, y, {"records", "up", "sending", "removed", "canceled"})
    BY <2>4 DEF Same
  <2>9. /\ Sound(y, gone) /\ y.isOnline = c.isOnline /\ y.request = c.request
        /\ y.shutdownHandler = c.shutdownHandler
    BY <2>5, <2>6, <2>7, <2>8, StillSound
  <2> QED BY <2>1, <2>6, <2>9 DEF d
<1> QED BY <1>1, <1>2

\* The deletion of a stack, posted to the strand, comes last.
LEMMA DeleteSound ==
    ASSUME NEW c, NEW gone, Sound(c, gone), NEW s \in gone
    PROVE  LET d == [c EXCEPT !.removed = @ \cup {s}, !.up = @ \ {s}, !.sending = @ \ {s}]
           IN  /\ Sound(d, gone \ {s}) /\ d.records = c.records /\ d.request = c.request
               /\ d.isOnline = c.isOnline /\ d.shutdownHandler = c.shutdownHandler
<1> DEFINE d == [c EXCEPT !.removed = @ \cup {s}, !.up = @ \ {s}, !.sending = @ \ {s}]
<1>1. /\ Same(c, d, {"removed", "up", "sending"}) /\ d.up = c.up \ {s}
      /\ d.records = c.records /\ d.isOnline = c.isOnline
  BY DEF Same, Sound, Steady, Typed
<1> HIDE DEF d
<1>2. Bound(d) = Bound(c) /\ Enabled(d) = Enabled(c)
  BY <1>1 DEF Bound, Enabled
<1>3. Told(d, gone \ {s})
  BY <1>1, <1>2 DEF Sound, Steady, Told
<1>4. /\ Same(c, d, {"records", "up", "sending", "removed", "canceled"})
      /\ Distinct(d.records) /\ (c.request = "Shutdown" => Bound(d) = {})
  BY <1>1, <1>2 DEF Same, Sound, Steady, Typed, Requested
<1>5. /\ Sound(d, gone \ {s}) /\ d.isOnline = c.isOnline /\ d.request = c.request
      /\ d.shutdownHandler = c.shutdownHandler
  BY <1>2, <1>3, <1>4, StillSound
<1> QED BY <1>1, <1>5 DEF d

\* The callback of a cancelled timer does nothing.
LEMMA CanceledSound ==
    ASSUME NEW c, NEW gone, Sound(c, gone)
    PROVE  LET d == [c EXCEPT !.canceled = @ - 1]
           IN  Sound(d, gone) /\ Outcome(c, d)
<1> DEFINE d == [c EXCEPT !.canceled = @ - 1]
<1>1. /\ Same(c, d, {"canceled"}) /\ d.up = c.up /\ d.records = c.records
      /\ d.isOnline = c.isOnline
  BY DEF Same, Sound, Steady, Typed
<1> HIDE DEF d
<1>2. Bound(d) = Bound(c) /\ Enabled(d) = Enabled(c)
  BY <1>1 DEF Bound, Enabled
<1>3. Told(d, gone)
  BY <1>1, <1>2 DEF Sound, Steady, Told
<1>4. /\ Same(c, d, {"records", "up", "sending", "removed", "canceled"})
      /\ Distinct(d.records) /\ (c.request = "Shutdown" => Bound(d) = {})
  BY <1>1, <1>2 DEF Same, Sound, Steady, Typed, Requested
<1>5. /\ Sound(d, gone) /\ d.isOnline = c.isOnline /\ d.request = c.request
      /\ d.shutdownHandler = c.shutdownHandler
  BY <1>2, <1>3, <1>4, StillSound
<1> QED BY <1>1, <1>5 DEF d, Outcome

\* A session that is up hands over a frame.
LEMMA SendsSound ==
    ASSUME NEW c, NEW gone, Sound(c, gone), NEW s \in Sessions, s \in c.up, s \notin gone
    PROVE  LET d == Talk(c, s, {s})
           IN  Sound(d, gone) /\ Outcome(c, d)
<1> DEFINE d == Talk(c, s, {s})
<1>1. Typed(c) /\ Queued(c) /\ c.isOnline
  <2>1. s \in c.up \cap Bound(c)
    BY DEF Sound, Steady, Told
  <2> QED BY <2>1 DEF Sound, Steady, Told
<1>2. Writes(c, d)
  BY <1>1, TalkWrites
<1> HIDE DEF d
<1>3. /\ Steady(d, gone) /\ (Pending(c) => Pending(d)) /\ d.records = c.records
      /\ d.request = c.request /\ d.isOnline = c.isOnline
      /\ d.shutdownHandler = c.shutdownHandler
  BY <1>2, WritesSteady DEF Sound
<1> QED BY <1>3 DEF Sound, Outcome, d

----------------------------------------------------------------------------
(* The invariant.                                                           *)

\* The channel is sound, has a record for every stack, and was told to shut
\* down when the user's thread says so.
IInv ==
    /\ Sound(ch, deleting)
    /\ stacks = Bound(ch)
    /\ phase \in {"Running", "Removing", "Stopping", "Draining", "Done"}
    /\ phase \in {"Running", "Removing"} <=> ch.request # "Shutdown"

\* How a step changes what the sessions see: a connection may go, one comes
\* for those who are enabled, or a session is enabled or disabled.
Serves(c, d) ==
    \/ /\ Enabled(d) = Enabled(c) /\ (d.isOnline => c.isOnline)
       /\ c.shutdownHandler = "Set" => d.shutdownHandler = "Set"
    \/ /\ Enabled(d) = Enabled(c) /\ ~c.isOnline /\ d.isOnline /\ Enabled(c) # {}
       /\ c.shutdownHandler # "Set" /\ d.shutdownHandler # "Set"
    \/ /\ c.shutdownHandler = "None" /\ d.shutdownHandler = "None"
       /\ \E s \in Sessions :
             \/ Enabled(d) = Enabled(c) \cup {s} /\ d.isOnline = c.isOnline
             \/ /\ Enabled(d) = Enabled(c) \ {s} /\ (d.isOnline => c.isOnline)
                /\ Enabled(d) # {} => d.isOnline = c.isOnline

\* The first state.
LEMMA Begins == Init => IInv
<1> SUFFICES ASSUME Init PROVE IInv
  OBVIOUS
<1> DEFINE c == InitialChannel
<1>1. /\ DOMAIN c = ChannelFields
      /\ c.state = "Init" /\ c.timer = 0 /\ c.isOnline = FALSE /\ c.currentRetry = MinRetry
      /\ c.isOpen = FALSE /\ c.isOpening = FALSE /\ c.isReading = FALSE /\ c.isWriting = FALSE
      /\ c.isClosing = FALSE /\ c.records = <<>> /\ c.transmitQueue = <<>>
      /\ c.isTransmitting = FALSE /\ c.up = {} /\ c.request = "None"
      /\ c.shutdownHandler = "None" /\ c.refused = {}
  BY DEF InitialChannel
<1> HIDE DEF c
<1>2. <<>> \in Seq(Record) /\ <<>> \in Seq(Sessions) /\ DOMAIN <<>> = {}
  OBVIOUS
<1>3. Typed(c)
  <2>1. \A f \in Flags : c[f] \in BOOLEAN
    BY <1>1 DEF Flags
  <2>2. Distinct(<<>>)
    BY <1>2 DEF Distinct
  <2> QED BY <1>1, <1>2, <2>1, <2>2, ChannelAssumption DEF Typed
<1>4. Physical(c) /\ Queued(c) /\ Pending(c)
  BY <1>1 DEF Physical, Queued, Pending, Openings, Onlines, Offlines
<1>5. Bound(c) = {} /\ Enabled(c) = {}
  BY <1>1, <1>2 DEF Bound, Enabled, Range
<1>6. Told(c, {}) /\ Requested(c)
  BY <1>1, <1>5 DEF Told, Requested
<1>7. ch = c /\ stacks = {} /\ deleting = {} /\ phase = "Running"
  BY DEF Init, c
<1> QED BY <1>1, <1>3, <1>4, <1>5, <1>6, <1>7 DEF IInv, Sound, Steady

\* A completion, or a timer: the channel stays sound, and nothing else changes.
LEMMA HandlerAdvances ==
    ASSUME IInv, Sound(ch', deleting), Outcome(ch, ch'), UNCHANGED <<stacks, deleting, phase>>
    PROVE  IInv' /\ Serves(ch, ch')
<1>1. Bound(ch') = Bound(ch) /\ Enabled(ch') = Enabled(ch)
  BY DEF Outcome, Bound, Enabled
<1>2. Bound(ch)' = Bound(ch)
  BY <1>1 DEF Bound
<1>3. Sound(ch, deleting)'
  <2>1. deleting' = deleting
    OBVIOUS
  <2> QED BY <2>1 DEF Sound, Steady, Typed, Physical, Queued, Told, Requested, Pending,
                      Bound, Enabled, CallbacksPending
<1>4. IInv'
  BY <1>2, <1>3 DEF IInv, Outcome
<1> QED BY <1>1, <1>4 DEF Serves, Outcome

\* The invariant of the next state, said of the next values.
LEMMA PrimedInvariant ==
    ASSUME Sound(ch', deleting'), stacks' = Bound(ch'),
           phase' \in {"Running", "Removing", "Stopping", "Draining", "Done"},
           phase' \in {"Running", "Removing"} <=> ch'.request # "Shutdown"
    PROVE  IInv'
BY DEF IInv, Sound, Steady, Typed, Physical, Queued, Told, Requested, Pending, Bound, Enabled,
       CallbacksPending

\* Every step keeps the invariant, and is one of those that the sessions see.
LEMMA Advances == IInv /\ [Next]_vars => IInv' /\ Serves(ch, ch')
<1> SUFFICES ASSUME IInv, [Next]_vars PROVE IInv' /\ Serves(ch, ch')
  OBVIOUS
<1> DEFINE c == ch
           d == ch'
<1>1. Sound(ch, deleting) /\ stacks = Bound(ch) /\ Bound(ch) \subseteq Sessions
  BY RecordFacts DEF IInv, Sound, Steady, Typed
<1>2. CASE OpenCallback
  <2>1. PICK err \in BOOLEAN, talkers \in SUBSET Enabled(ch) : ch' = OnOpenCallback(ch, err, talkers)
    BY <1>2 DEF OpenCallback
  <2>2. ch.isOpening /\ UNCHANGED <<stacks, deleting, phase>>
    BY <1>2 DEF OpenCallback
  <2> DEFINE w == [ch EXCEPT !.isOpening = FALSE]
  <2>3. w.isClosing = ch.isClosing
    BY <1>1 DEF Sound, Steady, Typed
  <2>4. CASE err \/ ch.isClosing
    <3>1. ch' = OnOpenFailure(CloseState(w))
      BY <2>1, <2>3, <2>4 DEF OnOpenCallback
    <3>2. Sound(ch', deleting) /\ Outcome(ch, ch')
      BY <1>1, <2>2, <2>4, <3>1, OpenFailureSound
    <3> QED BY <2>2, <3>2, HandlerAdvances
  <2>5. CASE ~(err \/ ch.isClosing)
    <3>1. ch' = OnLowerLayerUp([w EXCEPT !.isOpen = TRUE], talkers)
      BY <2>1, <2>3, <2>5 DEF OnOpenCallback
    <3>2. [w EXCEPT !.isOpen = TRUE] = [ch EXCEPT !.isOpening = FALSE, !.isOpen = TRUE]
      OBVIOUS
    <3>3. ch' = OnLowerLayerUp([ch EXCEPT !.isOpening = FALSE, !.isOpen = TRUE], talkers)
      BY <3>1, <3>2
    <3> HIDE DEF w
    <3>4. /\ Sound(ch', deleting) /\ ch'.isOnline = TRUE /\ ch'.records = ch.records
          /\ ch.isOnline = FALSE /\ Enabled(ch) # {}
          /\ ch'.shutdownHandler # "Set" /\ ch.shutdownHandler # "Set"
          /\ ch'.request = ch.request
      BY <1>1, <2>2, <2>5, <3>3, OpenSuccessSound
    <3>5. Bound(ch') = Bound(ch) /\ Enabled(ch') = Enabled(ch)
      BY <3>4 DEF Bound, Enabled
    <3>6. IInv'
      BY <2>2, <3>4, <3>5, PrimedInvariant DEF IInv
    <3> QED BY <3>4, <3>5, <3>6 DEF Serves
  <2> QED BY <2>4, <2>5
<1>3. CASE ReadCallback
  <2>1. PICK err \in BOOLEAN, talkers \in SUBSET Enabled(ch) : ch' = OnReadCallback(ch, err, talkers)
    BY <1>3 DEF ReadCallback
  <2>2. ch.isReading /\ UNCHANGED <<stacks, deleting, phase>>
    BY <1>3 DEF ReadCallback
  <2>3. Sound(ch', deleting) /\ Outcome(ch, ch')
    BY <1>1, <2>1, <2>2, ReadSound
  <2> QED BY <2>2, <2>3, HandlerAdvances
<1>4. CASE WriteCallback
  <2>1. PICK err \in BOOLEAN, talkers \in SUBSET ch.sending : ch' = OnWriteCallback(ch, err, talkers)
    BY <1>4 DEF WriteCallback
  <2>2. ch.isWriting /\ UNCHANGED <<stacks, deleting, phase>>
    BY <1>4 DEF WriteCallback
  <2>3. Sound(ch', deleting) /\ Outcome(ch, ch')
    BY <1>1, <2>1, <2>2, WriteSound
  <2> QED BY <2>2, <2>3, HandlerAdvances
<1>5. CASE OpenTimer
  <2>1. ch.timer # 0 /\ ch' = OnOpenTimerExpiration(ch) /\ UNCHANGED <<stacks, deleting, phase>>
    BY <1>5 DEF OpenTimer
  <2>2. Sound(ch', deleting) /\ Outcome(ch, ch')
    BY <1>1, <2>1, TimerSound
  <2> QED BY <2>1, <2>2, HandlerAdvances
<1>6. CASE CanceledTimer
  <2>1. ch' = [ch EXCEPT !.canceled = @ - 1] /\ UNCHANGED <<stacks, deleting, phase>>
    BY <1>6 DEF CanceledTimer
  <2>2. Sound(ch', deleting) /\ Outcome(ch, ch')
    BY <1>1, <2>1, CanceledSound
  <2> QED BY <2>1, <2>2, HandlerAdvances
<1>7. ASSUME NEW s \in Sessions, SessionSends(s) PROVE IInv' /\ Serves(ch, ch')
  <2>1. /\ s \in ch.up /\ s \notin deleting /\ ch' = Talk(ch, s, {s})
        /\ UNCHANGED <<stacks, deleting, phase>>
    BY <1>7 DEF SessionSends
  <2>2. Sound(ch', deleting) /\ Outcome(ch, ch')
    BY <1>1, <2>1, SendsSound
  <2> QED BY <2>1, <2>2, HandlerAdvances
<1>8. ASSUME NEW s \in Sessions, AddStack(s) PROVE IInv' /\ Serves(ch, ch')
  <2>1. /\ phase = "Running" /\ s \notin stacks \cup deleting
        /\ ch' = AddContext(ch, s) /\ stacks' = Bound(ch') \cup stacks
        /\ UNCHANGED <<deleting, phase>>
    BY <1>8 DEF AddStack
  <2>2. /\ Sound(ch', deleting) /\ Bound(ch) \subseteq Bound(ch') /\ Enabled(ch') = Enabled(ch)
        /\ ch'.isOnline = ch.isOnline /\ ch'.request = ch.request
        /\ ch'.shutdownHandler = ch.shutdownHandler
    BY <1>1, <2>1, AddSound DEF IInv
  <2>3. stacks' = Bound(ch')
    BY <1>1, <2>1, <2>2
  <2>4. IInv'
    BY <2>1, <2>2, <2>3, PrimedInvariant DEF IInv
  <2> QED BY <2>2, <2>4 DEF Serves
<1>9. ASSUME NEW s \in Sessions, EnableRoute(s) PROVE IInv' /\ Serves(ch, ch')
  <2>1. PICK talkers \in SUBSET {s} : ch' = Enable(ch, s, talkers)
    BY <1>9 DEF EnableRoute
  <2>2. s \in Bound(ch) /\ UNCHANGED <<stacks, deleting, phase>>
    BY <1>1, <1>9 DEF EnableRoute
  <2>3. /\ Sound(ch', deleting) /\ Bound(ch') = Bound(ch) /\ Enabled(ch') = Enabled(ch) \cup {s}
        /\ ch'.isOnline = ch.isOnline
        /\ ch'.shutdownHandler = "None" /\ ch.shutdownHandler = "None"
    BY <1>1, <2>1, <2>2, EnableSound
  <2>4. ch.request # "Shutdown" /\ ch'.request # "Shutdown"
    BY <1>1, <2>3 DEF Sound, Steady, Requested
  <2>5. IInv'
    BY <1>1, <2>2, <2>3, <2>4, PrimedInvariant DEF IInv
  <2> QED BY <2>3, <2>5 DEF Serves
<1>10. ASSUME NEW s \in Sessions, DisableRoute(s) PROVE IInv' /\ Serves(ch, ch')
  <2>1. ch' = Disable(ch, s) /\ s \in Bound(ch) /\ UNCHANGED <<stacks, deleting, phase>>
    BY <1>1, <1>10 DEF DisableRoute
  <2>2. /\ Sound(ch', deleting) /\ Bound(ch') = Bound(ch) /\ Enabled(ch') = Enabled(ch) \ {s}
        /\ (ch'.isOnline => ch.isOnline) /\ (Enabled(ch') # {} => ch'.isOnline = ch.isOnline)
        /\ ch'.shutdownHandler = "None" /\ ch.shutdownHandler = "None"
    BY <1>1, <2>1, DisableSound
  <2>3. ch.request # "Shutdown" /\ ch'.request # "Shutdown"
    BY <1>1, <2>2 DEF Sound, Steady, Requested
  <2>4. IInv'
    BY <1>1, <2>1, <2>2, <2>3, PrimedInvariant DEF IInv
  <2> QED BY <2>2, <2>4 DEF Serves
<1>11. ASSUME NEW s \in Sessions, ShutdownStack(s) PROVE IInv' /\ Serves(ch, ch')
  <2>1. /\ ch' = RemoveContext(ch, s) /\ s \in Bound(ch) /\ stacks' = stacks \ {s}
        /\ deleting' = deleting \cup {s} /\ phase' = phase
    BY <1>1, <1>11 DEF ShutdownStack
  <2>2. /\ Sound(ch', deleting \cup {s}) /\ Bound(ch') = Bound(ch) \ {s}
        /\ Enabled(ch') = Enabled(ch) \ {s}
        /\ (ch'.isOnline => ch.isOnline) /\ (Enabled(ch') # {} => ch'.isOnline = ch.isOnline)
        /\ ch'.shutdownHandler = "None" /\ ch.shutdownHandler = "None"
    BY <1>1, <2>1, RemoveSound
  <2>3. ch.request # "Shutdown" /\ ch'.request # "Shutdown"
    BY <1>1, <2>2 DEF Sound, Steady, Requested
  <2>4. IInv'
    BY <1>1, <2>1, <2>2, <2>3, PrimedInvariant DEF IInv
  <2> QED BY <2>2, <2>4 DEF Serves
<1>12. ASSUME NEW s \in Sessions, DeleteStack(s) PROVE IInv' /\ Serves(ch, ch')
  <2>1. /\ s \in deleting /\ deleting' = deleting \ {s} /\ UNCHANGED <<stacks, phase>>
        /\ ch' = [ch EXCEPT !.removed = @ \cup {s}, !.up = @ \ {s}, !.sending = @ \ {s}]
    BY <1>12 DEF DeleteStack
  <2>2. /\ Sound(ch', deleting \ {s}) /\ ch'.records = ch.records /\ ch'.request = ch.request
        /\ ch'.isOnline = ch.isOnline /\ ch'.shutdownHandler = ch.shutdownHandler
    BY <1>1, <2>1, DeleteSound
  <2>3. Bound(ch') = Bound(ch) /\ Enabled(ch') = Enabled(ch)
    BY <2>2 DEF Bound, Enabled
  <2>4. IInv'
    BY <2>1, <2>2, <2>3, PrimedInvariant DEF IInv
  <2> QED BY <2>2, <2>3, <2>4 DEF Serves
<1>13. CASE InitiateShutdown
  <2>1. /\ phase = "Removing" /\ stacks = {} /\ phase' = "Stopping" /\ UNCHANGED <<stacks, deleting>>
        /\ ch' = CheckForFinalShutdown(Shutdown([ch EXCEPT !.shutdownHandler = "Waiting"]))
    BY <1>13 DEF InitiateShutdown
  <2>2. ch.request # "Shutdown" /\ Bound(ch) = {}
    BY <1>1, <2>1 DEF IInv
  <2>3. /\ Sound(ch', deleting) /\ ch'.records = ch.records /\ ch'.isOnline = ch.isOnline
        /\ ch'.request = "Shutdown" /\ ch.shutdownHandler = "None"
    BY <1>1, <2>1, <2>2, ShutdownSound
  <2>4. Bound(ch') = Bound(ch) /\ Enabled(ch') = Enabled(ch)
    BY <2>3 DEF Bound, Enabled
  <2>5. IInv'
    BY <1>1, <2>1, <2>3, <2>4, PrimedInvariant DEF IInv
  <2> QED BY <2>3, <2>4, <2>5 DEF Serves
<1>14. CASE BeginShutdown \/ WaitForShutdown \/ FinalPost \/ UNCHANGED vars
  <2>1. /\ ch' = ch /\ stacks' = stacks /\ deleting' = deleting
        /\ phase' = phase \/ (phase = "Running" /\ phase' = "Removing")
           \/ (phase = "Stopping" /\ phase' = "Draining") \/ (phase = "Draining" /\ phase' = "Done")
    BY <1>14 DEF BeginShutdown, WaitForShutdown, FinalPost, vars
  <2>2. Sound(ch', deleting) /\ Bound(ch') = Bound(ch) /\ Enabled(ch') = Enabled(ch)
    BY <1>1, <2>1
  <2>3. IInv'
    BY <2>1, <2>2, PrimedInvariant DEF IInv
  <2> QED BY <2>1, <2>2, <2>3 DEF Serves
<1> QED BY <1>2, <1>3, <1>4, <1>5, <1>6, <1>7, <1>8, <1>9, <1>10, <1>11, <1>12, <1>13, <1>14 DEF Next

\* What the invariant says of the sessions: an enabled one is told that the
\* layer is up while there is a connection, and with the shutdown there is none.
Seen ==
    /\ ch.up \cap Bound(ch) = IF ch.isOnline THEN Enabled(ch) ELSE {}
    /\ ch.isOnline \in BOOLEAN
    /\ ch.shutdownHandler = "Set" => Enabled(ch) = {} /\ ~ch.isOnline

\* It follows from the invariant.
LEMMA Sees == IInv => Seen
<1> SUFFICES ASSUME IInv PROVE Seen
  OBVIOUS
<1>1. ch.isOnline \in BOOLEAN
  BY DEF IInv, Sound, Steady, Typed, Flags
<1>2. ASSUME ch.shutdownHandler = "Set" PROVE Enabled(ch) = {} /\ ~ch.isOnline
  <2>1. ch.state = "Shutdown" /\ Bound(ch) = {}
    BY <1>2 DEF IInv, Sound, Steady, Requested
  <2> QED BY <2>1 DEF IInv, Sound, Steady, Physical, Onlines, Bound, Enabled
<1> QED BY <1>1, <1>2 DEF IInv, Sound, Steady, Told, Seen

\* A step that the sessions see is a step of the service, or a stutter.
LEMMA ServesImplements ==
    ASSUME IInv, IInv', Serves(ch, ch')
    PROVE  [Service!Next]_(Service!vars)
<1> DEFINE e == Enabled(ch)
           f == Enabled(ch)'
           l == ch.isOnline
           m == ch.isOnline'
           u == ch.up \cap Bound(ch)
           v == (ch.up \cap Bound(ch))'
           h == ch.shutdownHandler = "Set"
           k == (ch.shutdownHandler = "Set")'
<1>0. /\ v = (IF m THEN f ELSE {}) /\ m \in BOOLEAN /\ (k => f = {} /\ ~m)
  <2>1. Seen'
    BY Sees, PTL
  <2> QED BY <2>1 DEF Seen
<1>1. /\ u = (IF l THEN e ELSE {}) /\ v = (IF m THEN f ELSE {})
      /\ l \in BOOLEAN /\ m \in BOOLEAN /\ h \in BOOLEAN /\ k \in BOOLEAN
      /\ (h => e = {} /\ ~l) /\ (k => f = {} /\ ~m)
  BY Sees, <1>0 DEF Seen
<1>2. \/ f = e /\ (m => l) /\ (h => k)
      \/ f = e /\ ~l /\ m /\ e # {} /\ ~h /\ ~k
      \/ ~h /\ ~k /\ \E s \in Sessions : f = e \cup {s} /\ m = l
      \/ ~h /\ ~k /\ \E s \in Sessions : f = e \ {s} /\ (m => l) /\ (f # {} => m = l)
  <2>1. f = Enabled(ch')
    BY DEF Enabled
  <2> QED BY <2>1 DEF Serves
<1>3. Service!vars = <<e, l, u, h>> /\ Service!vars' = <<f, m, v, k>>
  BY DEF Service!vars
<1> HIDE DEF e, f, l, m, u, v, h, k
<1>4. CASE f = e /\ (m => l) /\ (h => k)
  <2>1. CASE m = l /\ h = k
    BY <1>1, <1>3, <1>4, <2>1
  <2>2. CASE l /\ ~m /\ h = k
    <3>1. Service!Disconnect
      BY <1>1, <1>4, <2>2 DEF Service!Disconnect, e, f, l, m, u, v, h, k
    <3> QED BY <3>1 DEF Service!Next
  <2>3. CASE ~h /\ k
    <3>1. Service!Finish
      BY <1>1, <1>4, <2>3 DEF Service!Finish, e, f, l, m, u, v, h, k
    <3> QED BY <3>1 DEF Service!Next
  <2> QED BY <1>1, <1>4, <2>1, <2>2, <2>3
<1>5. CASE f = e /\ ~l /\ m /\ e # {} /\ ~h /\ ~k
  <2>1. Service!Connect
    BY <1>1, <1>5 DEF Service!Connect, e, f, l, m, u, v, h, k
  <2> QED BY <2>1 DEF Service!Next
<1>6. ASSUME ~h, ~k, NEW s \in Sessions, f = e \cup {s}, m = l
      PROVE  [Service!Next]_(Service!vars)
  <2>1. CASE s \in e
    BY <1>1, <1>3, <1>6, <2>1
  <2>2. CASE s \notin e
    <3>1. Service!Enable(s)
      BY <1>1, <1>6, <2>2 DEF Service!Enable, e, f, l, m, u, v, h, k
    <3> QED BY <3>1 DEF Service!Next
  <2> QED BY <2>1, <2>2
<1>7. ASSUME ~h, ~k, NEW s \in Sessions, f = e \ {s}, m => l, f # {} => m = l
      PROVE  [Service!Next]_(Service!vars)
  <2>1. CASE s \notin e /\ m = l
    BY <1>1, <1>3, <1>7, <2>1
  <2>2. CASE s \notin e /\ m # l
    <3>1. f = e
      BY <1>7, <2>2
    <3>2. Service!Disconnect
      BY <1>1, <1>7, <2>2, <3>1 DEF Service!Disconnect, e, f, l, m, u, v, h, k
    <3> QED BY <3>2 DEF Service!Next
  <2>3. CASE s \in e /\ m = l
    <3>1. Service!Disable(s)
      BY <1>1, <1>7, <2>3 DEF Service!Disable, e, f, l, m, u, v, h, k
    <3> QED BY <3>1 DEF Service!Next
  <2>4. CASE s \in e /\ m # l
    <3>1. e = {s}
      BY <1>7, <2>4
    <3>2. Service!DisableLast(s)
      BY <1>1, <1>7, <2>4, <3>1 DEF Service!DisableLast, e, f, l, m, u, v, h, k
    <3> QED BY <3>2 DEF Service!Next
  <2> QED BY <2>1, <2>2, <2>3, <2>4
<1> QED BY <1>2, <1>4, <1>5, <1>6, <1>7

----------------------------------------------------------------------------
(* The theorems.                                                            *)

\* Monitor, physical layer, router and sessions agree in every state, and the
\* stacks are those of the router: for any number of sessions and any bounds.
THEOREM ChannelInvariant == Spec => []IInv
<1>1. IInv /\ [Next]_vars => IInv'
  BY Advances
<1> QED BY Begins, <1>1, PTL DEF Spec

\* No assertion of the monitor or the router fails, and no operation is ever
\* refused as invalid for the state it meets.
THEOREM NothingIsRefused == Spec => []NothingRefused
<1>1. IInv => NothingRefused
  BY DEF IInv, Sound, Steady, Typed, NothingRefused
<1> QED BY ChannelInvariant, <1>1, PTL

\* While a session is enabled the channel is connected or on its way to be,
\* and the last request of the router was Start.
THEOREM EnabledAreServed == Spec => []ServesTheEnabled
<1>1. IInv => ServesTheEnabled
  BY DEF IInv, Sound, Steady, Requested, ServesTheEnabled
<1> QED BY ChannelInvariant, <1>1, PTL

\* The channel implements ChannelService: OnLowerLayerUp and OnLowerLayerDown
\* tell every enabled session, and nobody else, the state of the connection.
THEOREM ImplementsTheService == Spec => ImplementsService
<1>1. Init => Service!Init
  <2> SUFFICES ASSUME Init PROVE Service!Init
    OBVIOUS
  <2>1. /\ ch.records = <<>> /\ ch.isOnline = FALSE /\ ch.up = {} /\ ch.shutdownHandler = "None"
    BY DEF Init, InitialChannel
  <2>2. Enabled(ch) = {}
    BY <2>1 DEF Enabled, Range
  <2> QED BY <2>1, <2>2 DEF Service!Init
<1>2. IInv /\ IInv' /\ [Next]_vars => [Service!Next]_(Service!vars)
  BY Advances, ServesImplements
<1> QED BY ChannelInvariant, <1>1, <1>2, PTL DEF Spec, ImplementsService, Service!Spec
=============================================================================
