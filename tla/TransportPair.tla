--------------------------- MODULE TransportPair ---------------------------
(***************************************************************************)
(* The transport layers of the two stations of LinkPair.  a's transmitter  *)
(* numbers the segments of the payloads; it goes to the next number when   *)
(* the link calls Advance, which is when a segment was acknowledged.  b's  *)
(* receiver takes each segment the link delivers, in the same step.        *)
(***************************************************************************)
EXTENDS LinkPair, Transport

VARIABLES txSequence,  \* TransportTx::sequence of a
          tpdus,       \* the segments handed to a's link, in order
          rx,          \* TransportRx of b
          fragments    \* the fragments b's application layer received

transportVars == <<txSequence, tpdus, rx, fragments>>

TransportInit ==
    /\ PairInit
    /\ txSequence = 0
    /\ tpdus = <<>>
    /\ rx = InitialRx
    /\ fragments = <<>>

\* TransportTx::Configure, and the segments GetSegment will return one after
\* the other, Advance being called between any two of them.
Configure ==
    [i \in 1 .. PayloadSegments |->
        GetSegment(i, PayloadSegments, (txSequence + i - 1) % TpduModulus, handed + i)]

\* TransportTx::Advance: called for a segment that another follows and for
\* the last one of a payload, never for one that failed.
Advance ==
    IF \/ confirmed' # confirmed
       \/ a.segments # <<>> /\ a'.segments = Tail(a.segments) /\ a'.segments # <<>>
    THEN NextTpdu(txSequence) ELSE txSequence

Transmit ==
    /\ tpdus' = IF handed' # handed THEN tpdus \o Configure ELSE tpdus
    /\ txSequence' = Advance

\* TransportLayer::OnReceive, and OnLowerLayerDown.
TransportReceive ==
    LET result == ProcessReceive(rx, tpdus[Last(delivered')])
    IN  IF delivered' # delivered
        THEN /\ rx' = result.rx
             /\ fragments' = IF result.fragment # <<>> THEN Append(fragments, result.fragment)
                                                       ELSE fragments
        ELSE /\ rx' = IF b.isOnline /\ ~b'.isOnline THEN Reset(rx) ELSE rx
             /\ UNCHANGED fragments

TransportNext == PairNext /\ Transmit /\ TransportReceive

TransportSpec == TransportInit /\ [][TransportNext]_<<pairVars, transportVars>>

----------------------------------------------------------------------------
\* The content of a payload: consecutive segments from its first to its last.
IsPayload(f) ==
    /\ Len(f) = PayloadSegments
    /\ f[1] % PayloadSegments = 1 % PayloadSegments
    /\ \A i \in DOMAIN f : f[i] = f[1] + i - 1

\* While no payload has failed in the session, what the application layer of
\* b receives (TransportLayer::OnReceive) is one whole payload of a, also when
\* late acknowledgements make a skip a segment that was lost.
FragmentsIntactWhileClean ==
    [][clean => \A i \in DOMAIN fragments' \ DOMAIN fragments :
                    IsPayload(fragments'[i])]_<<pairVars, transportVars>>

\* A payload reported as sent (TransportLayer::OnSendResult) has reached the
\* application layer of b, while nothing failed and timeouts exceed the round
\* trip.
SentMeansReceivedWhileClean ==
    [][prompt /\ clean =>
         \A s \in confirmed' \ confirmed :
            \E i \in DOMAIN fragments' : s \in Range(fragments'[i])]_<<pairVars, transportVars>>
=============================================================================
