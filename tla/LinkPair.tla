------------------------------ MODULE LinkPair ------------------------------
(***************************************************************************)
(* Two link layers over a line that may lose frames: station a sends the   *)
(* payloads of its transport layer as confirmed user data, station b       *)
(* receives them.  Both run module LinkContext; the line keeps the order   *)
(* of frames, as a serial line or a TCP connection does.                   *)
(***************************************************************************)
EXTENDS LinkContext, SequencesExt

CONSTANTS PayloadSegments,  \* segments of one payload
          MaxSegment,       \* bound: segments handed over in a behaviour
          MaxInFlight,      \* bound: frames on the line in one direction
          MaxKeepAlives     \* bound: keep-alive timeouts in a behaviour

ASSUME PairAssumption ==
    /\ PayloadSegments \in Nat \ {0}
    /\ MaxSegment \in Nat
    /\ MaxInFlight \in Nat
    /\ MaxKeepAlives \in Nat

VARIABLES a, b,        \* the two stations
          ab, ba,      \* the line, one sequence of frames per direction
          postedA,     \* results posted to a's transport layer
          handed,      \* segments 1 .. handed were handed to a
          delivered,   \* segments pushed up to b's transport layer
          confirmed,   \* segments of payloads reported as sent
          clean,       \* no payload failed in this session
          prompt,      \* no timeout has come before the answer it waited for
          keepAlives

pairVars == <<a, b, ab, ba, postedA, handed, delivered, confirmed, clean, prompt, keepAlives>>

PairInit ==
    /\ a = InitialLink(TRUE) /\ b = InitialLink(TRUE)
    /\ ab = <<>> /\ ba = <<>>
    /\ postedA = <<>>
    /\ handed = 0
    /\ delivered = <<>>
    /\ confirmed = {}
    /\ clean = TRUE
    /\ prompt = TRUE
    /\ keepAlives = 0

\* The segments of the payload that was handed over last.
Payload == {s \in 1 .. handed : s > handed - PayloadSegments}

\* Station a takes the context l: its results are posted, and a success is
\* noted as such.
StationA(l) ==
    /\ a' = Fresh(l)
    /\ postedA' = postedA \o l.results
    /\ confirmed' = IF TRUE \in {l.results[i] : i \in DOMAIN l.results}
                    THEN confirmed \cup Payload ELSE confirmed
    /\ clean' = (clean /\ FALSE \notin {l.results[i] : i \in DOMAIN l.results})

\* The same, with the frame it transmits put on the line.
StepA(l) ==
    /\ ab' = ab \o l.sent
    /\ StationA(l)

StepB(l) ==
    /\ b' = Fresh(l)
    /\ ba' = ba \o l.sent
    /\ delivered' = delivered \o l.up

UnchangedA == UNCHANGED <<a, postedA, confirmed, clean>>
UnchangedB == UNCHANGED <<b, delivered>>

Connect ==
    /\ ~a.isOnline
    /\ postedA = <<>>
    /\ a' = LowerLayerUp(a)
    /\ b' = LowerLayerUp(b)
    /\ clean' = TRUE
    /\ UNCHANGED <<ab, ba, postedA, handed, delivered, confirmed, keepAlives, prompt>>

\* The channel closes for both, with what is on it.
Disconnect ==
    /\ a.isOnline
    /\ a' = LowerLayerDown(a)
    /\ b' = LowerLayerDown(b)
    /\ ab' = <<>> /\ ba' = <<>>
    /\ UNCHANGED <<postedA, handed, delivered, confirmed, clean, keepAlives, prompt>>

\* a's transport layer hands over a payload when it has no send outstanding.
SendPayload ==
    /\ a.isOnline
    /\ a.segments = <<>>
    /\ postedA = <<>>
    /\ handed + PayloadSegments <= MaxSegment
    /\ handed' = handed + PayloadSegments
    /\ StepA(Send(a, [i \in 1 .. PayloadSegments |-> handed + i]))
    /\ UnchangedB
    /\ UNCHANGED <<ba, keepAlives, prompt>>

OnSendResultA ==
    /\ postedA # <<>>
    /\ postedA' = Tail(postedA)
    /\ UNCHANGED <<a, b, ab, ba, handed, delivered, confirmed, clean, keepAlives, prompt>>

TransmitResultA ==
    /\ a.txMode # "Idle"
    /\ StepA(TransmitResult(a, TRUE))
    /\ UnchangedB
    /\ UNCHANGED <<ba, handed, keepAlives, prompt>>

\* The write fails, so the frame, the last one on the line, does not arrive.
TransmitFailsA ==
    LET l == TransmitResult(a, FALSE)
    IN  /\ a.txMode # "Idle"
        /\ ab # <<>>
        /\ ab' = Front(ab) \o l.sent
        /\ StationA(l)
        /\ UnchangedB
        /\ UNCHANGED <<ba, handed, keepAlives, prompt>>

TransmitResultB ==
    /\ b.txMode # "Idle"
    /\ StepB(TransmitResult(b, TRUE))
    /\ UnchangedA
    /\ UNCHANGED <<ab, handed, keepAlives, prompt>>

ReceiveA ==
    /\ ba # <<>>
    /\ ba' = Tail(ba)
    /\ StepA(OnFrame(a, Head(ba)))
    /\ UnchangedB
    /\ UNCHANGED <<handed, keepAlives, prompt>>

ReceiveB ==
    LET l == OnFrame(b, Head(ab))
    IN  /\ ab # <<>>
        /\ ab' = Tail(ab)
        /\ StepB(l)
        /\ UnchangedA
        /\ UNCHANGED <<handed, keepAlives, prompt>>

\* A frame is damaged on the line: the receiver's parser drops it.
LoseA ==
    /\ ab # <<>>
    /\ ab' = Tail(ab)
    /\ UNCHANGED <<a, b, ba, postedA, handed, delivered, confirmed, clean, keepAlives, prompt>>

LoseB ==
    /\ ba # <<>>
    /\ ba' = Tail(ba)
    /\ UNCHANGED <<a, b, ab, postedA, handed, delivered, confirmed, clean, keepAlives, prompt>>

\* Nothing that could still become an answer is under way.
NoAnswerComing == ab = <<>> /\ ba = <<>> /\ b.txMode = "Idle"

TimeoutA ==
    /\ a.rspTimer
    /\ Len(ab) < MaxInFlight
    /\ prompt' = (prompt /\ NoAnswerComing)
    /\ StepA(ResponseTimeout(a))
    /\ UnchangedB
    /\ UNCHANGED <<ba, handed, keepAlives>>

KeepAliveA ==
    /\ a.isOnline
    /\ keepAlives < MaxKeepAlives
    /\ keepAlives' = keepAlives + 1
    /\ StepA(KeepAliveTimeout(a, TRUE))
    /\ UnchangedB
    /\ UNCHANGED <<ba, handed, prompt>>

PairNext ==
    \/ Connect
    \/ Disconnect
    \/ SendPayload
    \/ OnSendResultA
    \/ TransmitResultA
    \/ TransmitFailsA
    \/ TransmitResultB
    \/ ReceiveA
    \/ ReceiveB
    \/ LoseA
    \/ LoseB
    \/ TimeoutA
    \/ KeepAliveA

PairSpec == PairInit /\ [][PairNext]_pairVars

----------------------------------------------------------------------------
Abstract == INSTANCE OrderedDelivery WITH handed <- handed, delivered <- delivered

\* However frames and acknowledgements are lost, late or repeated, b's
\* transport layer gets each segment at most once and in order: the pair
\* implements OrderedDelivery.
DeliversInOrder == Abstract!Spec
=============================================================================
