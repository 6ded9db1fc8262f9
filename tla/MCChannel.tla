----------------------------- MODULE MCChannel -----------------------------
(* Three stacks, of which Main and Spare have the same route. *)
EXTENDS Channel

CONSTANTS Main, Other, Spare

MCSessions == {Main, Other, Spare}
MCRoute == [s \in MCSessions |-> IF s = Other THEN 2 ELSE 1]
=============================================================================
