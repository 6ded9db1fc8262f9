----------------------------- MODULE Transport -----------------------------
(***************************************************************************)
(* The transport function (cpp/libs/src/opendnp3/transport): a fragment is *)
(* sent as numbered segments, TransportRx puts it together again.          *)
(* A segment is its header bits, its number and its content; sizes are     *)
(* counted in segments.                                                    *)
(***************************************************************************)
EXTENDS Integers, Sequences

CONSTANTS TpduModulus,   \* modulus of the sequence number (64 in the code)
          RxCapacity     \* segments the receive buffer holds

ASSUME TransportAssumption ==
    /\ TpduModulus \in Nat \ {0}
    /\ RxCapacity \in Nat

NextTpdu(seq) == (seq + 1) % TpduModulus

Tpdu(fir, fin, seq, data) == [fir |-> fir, fin |-> fin, seq |-> seq, data |-> data]

\* TransportTx::GetSegment for part i of n, the sequence number being seq.
GetSegment(i, n, seq, data) == Tpdu(i = 1, i = n, seq, data)

\* TransportRx: the number it expects, and what it has read of a fragment.
InitialRx == [sequence |-> 0, read |-> <<>>]

Reset(rx) == InitialRx

\* Mutant of AcceptFir: the number of a first segment is not taken over.
AcceptFirUnnumbered(rx, t) == IF t.fir THEN [rx EXCEPT !.read = <<>>] ELSE rx

\* A first segment is always accepted, and drops what was read before.
AcceptFir(rx, t) == IF t.fir THEN [sequence |-> t.seq, read |-> <<>>] ELSE rx

\* Mutant of ValidateHeader: the number is not compared.
ValidateHeaderUnnumbered(rx, t) == t.fir \/ rx.read # <<>>

ValidateHeader(rx, t) == t.fir \/ (rx.read # <<>> /\ t.seq = rx.sequence)

\* The receiver after segment t, and the fragment that t completes, if any.
ProcessReceive(rx, t) ==
    LET r    == AcceptFir(rx, t)
        read == Append(r.read, t.data)
    IN  CASE ~ValidateHeader(rx, t)   -> [rx |-> rx, fragment |-> <<>>]
          [] ValidateHeader(rx, t) /\ Len(read) > RxCapacity
               -> [rx |-> [r EXCEPT !.read = <<>>], fragment |-> <<>>]
          [] OTHER
               -> [rx |-> [sequence |-> NextTpdu(r.sequence),
                           read     |-> IF t.fin THEN <<>> ELSE read],
                   fragment |-> IF t.fin THEN read ELSE <<>>]
=============================================================================
