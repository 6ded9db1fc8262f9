-------------------------- MODULE OrderedDelivery --------------------------
(***************************************************************************)
(* What a confirmed data link promises whatever the line does to it: the   *)
(* segments handed to it come out in order and none comes out twice, but   *)
(* any of them may fail to come out.                                       *)
(***************************************************************************)
EXTENDS Naturals, Sequences

VARIABLES handed,    \* segments 1 .. handed were handed to the link
          delivered  \* the segments that came out, in order

Latest == IF delivered = <<>> THEN 0 ELSE delivered[Len(delivered)]

Init == handed = 0 /\ delivered = <<>>

Hand == handed' \in Nat /\ handed' > handed /\ UNCHANGED delivered

Deliver == \E s \in Latest + 1 .. handed :
                delivered' = Append(delivered, s) /\ UNCHANGED handed

Next == Hand \/ Deliver

Spec == Init /\ [][Next]_<<handed, delivered>>
=============================================================================
